---- MODULE Spec2Model ----
(***************************************************************************)
(* A model of the vallicks unikernel's cooperative runtime and network     *)
(* stack: the executor and its run queue, the PIT tick handler and the     *)
(* timer wheel, the unbounded MPSC channel, and the TCP/IP ingress path.   *)
(*                                                                         *)
(* Seven next-state relations share one state:                            *)
(*   Spec      executor + interrupt handlers + timer wheel                 *)
(*   SpecFair  Spec with the executor's own steps weakly fair              *)
(*   SpecChan  the MPSC channel (src/src/sync)                             *)
(*   SpecNet   Ethernet/IPv4/ICMP/TCP ingress and the socket surface       *)
(*   SpecSync  the async Mutex and RwLock (src/src/sync)                   *)
(*   SpecWire  the packet views of src/src/net/wire applied to buffers     *)
(*   SpecRok   the RTL8139 receive ring cursor (src/src/driver)            *)
(***************************************************************************)
EXTENDS Integers, Sequences, FiniteSets, TLC

(***************************************************************************)
(* Bounds of the model (not program constants).                            *)
(***************************************************************************)
\* tasks spawned before Executor::run
MaxTasks == 2
\* PIT ticks observed
MaxTicks == 19
\* iterations of a self-waking task
MaxLoops == 2
\* frames the NIC interrupt handler enqueues
MaxFrames == 2
\* send() calls made on the channel
MaxMsgs == 3
\* senders alive at once (clones of the first UnboundedSender)
MaxSenders == 2
\* payload bytes one TCP connection accepts
MaxRxBytes == 3
\* TcpStream::write calls per connection
MaxWrites == 2
\* length of the buffer TcpStream::read is called with
MaxBuf == 2
\* TcpListeners alive at once
MaxListeners == 2
\* tasks contending for the Mutex and the RwLock
MaxLockTasks == 2
\* guards of one kind a task keeps alive at once
MaxGuards == 2
\* tasks of the runs in which tasks wait for the RwLock or the Mutex
MaxWaiters == 3
\* frames a TxSink buffers before a flush, and the frames it is given
MaxTxBuf == 3
\* tasks spawned by a running task
MaxChildren == 1
\* polls of one task that never completes
MaxPolls == 3
\* entries of the run queue in the runs with wakes from outside
MaxRunQueue == 3
TxFrames == 1..2
\* bytes a buffer handed to from_bytes has past the minimum length
MaxExtra == 2
\* set_checksum calls made on one packet
MaxSetChecksum == 2

(***************************************************************************)
(* Program constants.                                                      *)
(***************************************************************************)
\* static mut TICK_FREQ: u64 = 18
TICK_FREQ == 18
\* ArrayQueue::new(0xff)
QueueCap == 255
\* const RX_BUF_LEN / RX_BUF_PAD / RX_BUF_WRAP / RX_BUF_LEN_WRAPPED
RX_BUF_LEN == 8192
RX_BUF_PAD == 16
RX_BUF_WRAP == 1500
RX_BUF_LEN_WRAPPED == RX_BUF_LEN + RX_BUF_PAD + RX_BUF_WRAP
\* assert!(length >= 64)
ROK_MIN_LEN == 64
\* arch/pci.rs: bits of the PCI command word (config offset 0x04)
PCI_BUS_MASTER == 4
PCI_INT_DISABLE == 1024
\* the RTL8139 has four transmit descriptors
TX_SLOTS == 4

NoTask == -1

\* the ids TaskId::new hands out
AllTaskIds == 0..(MaxTasks + MaxChildren - 1)

\* Sleep periods (milliseconds) the spawned tasks use
Periods == {50, 100}

VARIABLES
    \* ---- executor (src/src/async/executor.rs) ----
    pc,           \* position of the boot flow / Executor::run
    int_enabled,  \* the CPU's interrupt flag
    tasks,        \* Executor.tasks: id -> future state
    task_queue,   \* Executor.task_queue (ArrayQueue<TaskId>)
    waker_cache,  \* Executor.waker_cache: ids with a cached waker
    SPAWN_QUEUE,  \* async_::SPAWN_QUEUE: tasks awaiting the merge
    NEXT_ID,      \* TaskId::new's counter
    spawned,      \* history: id -> the future each task was created with
    polls,        \* history: number of polls of each task id
    last_polled,  \* history: id polled by the last executor step, or NoTask
    panicked,     \* a panic! was raised (the kernel stops)
    \* ---- PIT and timer wheel (src/src/arch/pit.rs, src/src/async/mod.rs) ----
    TICK,         \* ticks since boot
    NOTIFY_AT,    \* next deadline, 0 = never
    TIMER_QUEUE,  \* BTreeMap<Duration, Waker>: deadline (ms) -> task id
    \* ---- NIC receive bridge (src/src/driver/rtl8139.rs) ----
    FRAMES,       \* the lock-free frame queue: ids of the frames, oldest first
    WAKER,        \* AtomicWaker of the RX stream: task id or NoTask
    frames_seen,  \* history: frames the interrupt handler has enqueued
    delivered,    \* history: frames poll_next handed to the RX task, in order
    rx_cursor,    \* Rtl8139State.rx_cursor
    capr,         \* the value last written to the CAPR register
    rok_len,      \* history: the length the last frame header declared
    \* ---- unbounded MPSC channel (src/src/sync/mod.rs, mpsc.rs) ----
    chan_list,    \* Chan.tx / RxFields.list: the shared SegQueue<T>
    semaphore,    \* AtomicUsize: (message_count << 1) | closed_bit
    rx_waker,     \* Chan.rx_waker holds the receiver's waker
    tx_count,     \* Chan.tx_count: live senders
    rx_closed,    \* RxFields.rx_closed
    rx_state,     \* the receiving task: "running", "pending" or "done"
    rx_pc,        \* position inside one Rx::recv poll: "idle" between polls
    rx_woken,     \* the receiving task has been woken and not polled since
    sent,         \* history: values of the successful send() calls, in order
    received,     \* history: values recv() returned, in order
    chan_panicked, \* a panic! was raised in the channel code
    \* ---- network stack (src/src/net) ----
    overflow_checks, \* build profile: arithmetic overflow panics (TRUE) or wraps
    arp_table,    \* Arp.arp_table: HashMap<Mac, Ipv4Addr> of the remote hosts
    OPEN_PORTS,   \* net::OPEN_PORTS: port -> the sender of the listener bound
    accept_queue, \* per listener: streams sent to it, not yet accepted
    streams,      \* connection keys whose TcpStream the application holds
    connections,  \* TcpLayer.connections: key -> TcpConnection
    net_out,      \* history: what the last ingress or bind call returned
    tx_log,       \* history: segments handed to the IPv4 egress, in order
    written,      \* history: per key, the items passed to TcpStream::write
    accepted_log, \* history: per key, payload bytes appended to the buffer
    read_log,     \* history: per key, bytes returned by TcpStream::read
    last_read,    \* history: the outcome of the last TcpStream::read
    reader_woken, \* keys whose reader task has been woken and not polled since
    net_panicked, \* a panic! was raised in the network stack
    \* ---- async Mutex and RwLock (src/src/sync/mutex.rs, rwlock.rs) ----
    mutex_lock,     \* Mutex.lock: AtomicBool
    mutex_guards,   \* per task: live MutexGuards it holds
    mutex_wakers,   \* Mutex.wakers: tasks with a waker in the set
    rw_state,       \* RwLock.state: AtomicU64
    read_guards,    \* per task: live RwLockReadGuards it holds
    write_guards,   \* per task: live RwLockWriteGuards it holds
    read_wakers,    \* RwLock.read_wakers
    write_wakers,   \* RwLock.write_wakers
    lock_wait,      \* per task: the future it is pending in: "none", "lock"
                    \* (Mutex::lock), "read" or "write" (RwLock)
    lock_woken,     \* tasks a WakerSet has notified and that were not polled since
    future_dropped, \* history: a pending lock future has been dropped
    \* ---- wire formats (src/src/net/wire) ----
    wire_kind,      \* the packet type a buffer is parsed as
    wire_in,        \* history: the bytes handed to from_bytes
    wire_pkt,       \* the packet from_bytes returned: None or Some(buffer)
    wire_out,       \* what into_bytes returned: None or Some(bytes)
    wire_sets,      \* history: set_checksum calls made on the packet
    \* ---- RTL8139 state lock and transmit path (src/src/driver/rtl8139.rs) ----
    state_lock,     \* RTL8139_STATE's spin::RwLock: "free" or the guard alive
    pci_cmd,        \* the card's PCI command word (config offset 0x04)
    imr_unmasked,   \* init() has written the interrupt mask register
    isr_spin,       \* handle_int is spinning in write() on a held lock
    isr_runs,       \* history: handle_int has run to its end of interrupt
    drv_pc,         \* position of the task context in init / TxSink::new
    tx_buffer,      \* TxSink.buffer
    tx_cursor,      \* Rtl8139State.tx_cursor
    tx_desc,        \* history: <<slot, frame>> writes of the last poll_flush
    flush_in,       \* history: <<buffer, cursor>> when poll_flush was entered
    flush_ret,      \* history: what the last poll_flush returned
    tx_wakers,      \* wakers poll_flush has registered anywhere
    heap_lock,      \* globals::ALLOCATOR's spin lock: "free" or "task"
    heap_spin,      \* an interrupt handler spins on the allocator's lock
    \* ---- observations of the run queue ----
    owed            \* history: per task, the live tasks that were queued when
                    \* it was last polled and have not been polled since

execVars == <<pc, int_enabled, tasks, task_queue, waker_cache, SPAWN_QUEUE,
              NEXT_ID, spawned, polls, last_polled, panicked>>
timerVars == <<TICK, NOTIFY_AT, TIMER_QUEUE>>
nicVars == <<FRAMES, WAKER, frames_seen, delivered, rx_cursor, capr, rok_len>>

chanVars == <<chan_list, semaphore, rx_waker, tx_count, rx_closed, rx_state,
              rx_pc, rx_woken, sent, received, chan_panicked>>
netVars ==
    <<overflow_checks, arp_table, OPEN_PORTS, accept_queue, streams,
      connections, net_out, tx_log, written, accepted_log, read_log,
      last_read, reader_woken, net_panicked>>

syncVars ==
    <<mutex_lock, mutex_guards, mutex_wakers, rw_state, read_guards,
      write_guards, read_wakers, write_wakers, lock_wait, lock_woken,
      future_dropped>>

wireVars == <<wire_kind, wire_in, wire_pkt, wire_out, wire_sets>>

drvVars ==
    <<state_lock, pci_cmd, imr_unmasked, isr_spin, isr_runs, drv_pc,
      tx_buffer, tx_cursor, tx_desc, flush_in, flush_ret, tx_wakers,
      heap_lock, heap_spin>>

obsVars == <<owed>>

vars ==
    <<execVars, timerVars, nicVars, chanVars, netVars, syncVars, wireVars,
      drvVars, obsVars>>

\* Option<T>: None and Some(x)
None == <<>>
Some(x) == <<x>>

\* SegQueue::pop() on a queue held oldest first
SegQueue_pop(q) == IF q = <<>> THEN None ELSE Some(Head(q))

Range(s) == {s[i] : i \in 1..Len(s)}

Min(S) == CHOOSE x \in S : \A y \in S : x <= y

\* f with key k removed
Remove(f, k) == [x \in DOMAIN f \ {k} |-> f[x]]

\* f with k mapped to v (BTreeMap::insert: an existing key is overwritten)
Insert(f, k, v) == [x \in DOMAIN f \cup {k} |-> IF x = k THEN v ELSE f[x]]

EmptyMap == [x \in {} |-> NoTask]

(***************************************************************************)
(* PIT: src/src/arch/pit.rs                                                *)
(***************************************************************************)
\* get_milis(): TICK / TICK_FREQ * 1000 in u64 arithmetic
get_milis_of(tick) == (tick \div TICK_FREQ) * 1000

get_milis == get_milis_of(TICK)

(***************************************************************************)
(* Timer wheel: src/src/async/mod.rs                                       *)
(***************************************************************************)
\* a wake_tasks that re-inserts the first entry still in the future and
\* does not call notify_in for it
RECURSIVE wake_tasks_NoNotify(_, _, _, _)
wake_tasks_NoNotify(wheel, notify, queue, now) ==
    IF DOMAIN wheel = {}
    THEN [wheel |-> wheel, notify |-> notify, queue |-> queue]
    ELSE LET k == Min(DOMAIN wheel) IN
         IF k > now
         THEN [wheel |-> wheel, notify |-> notify, queue |-> queue]
         ELSE wake_tasks_NoNotify(Remove(wheel, k), 0,
                                  Append(queue, wheel[k]), now)

\* wake_tasks(): pops the earliest entries; the first one still in the
\* future is re-inserted and becomes NOTIFY_AT, every due one is woken
\* (its id pushed on the run queue) and NOTIFY_AT is reset.
RECURSIVE wake_tasks(_, _, _, _)
wake_tasks(wheel, notify, queue, now) ==
    IF DOMAIN wheel = {}
    THEN [wheel |-> wheel, notify |-> notify, queue |-> queue]
    ELSE LET k == Min(DOMAIN wheel) IN
         IF k > now
         THEN [wheel |-> wheel, notify |-> k, queue |-> queue]
         ELSE wake_tasks(Remove(wheel, k), 0, Append(queue, wheel[k]), now)

\* push_timer(when, waker): insert under the lock, then wake_tasks()
push_timer(wheel, notify, queue, now, when, id) ==
    wake_tasks(Insert(wheel, when, id), notify, queue, now)

(***************************************************************************)
(* Futures the tasks run.                                                  *)
(*   "yield": wakes itself and returns Pending `left` times, then Ready    *)
(*   "sleep": Sleep::new(period).await                                     *)
(*   "rx"   : loop { RxSink.next().await }                                 *)
(*   "spin" : wakes itself and returns Pending on every poll               *)
(*   "spawn": calls async_::spawn(child) and completes                     *)
(*   "interval": Interval::new(period), then tick().await `left` times;    *)
(*               `first` keeps the deadline of the first tick              *)
(***************************************************************************)
Future(kind, n, period) ==
    [kind |-> kind, left |-> n, period |-> period, started |-> FALSE,
     yield_at |-> 0, first |-> 0]

Futures ==
    {Future("yield", n, 0) : n \in 0..MaxLoops}
    \cup {Future("sleep", 0, p) : p \in Periods}
    \cup {Future("rx", 0, 0)}
    \cup {Future("interval", MaxLoops, p) : p \in Periods}

(***************************************************************************)
(* Boot flow (src/src/main.rs): tasks are created and handed to the        *)
(* executor, then Executor::run is entered.                                *)
(***************************************************************************)
InitChan ==
    \* sync::channel(AtomicUsize::new(0)): one sender, one receiver
    /\ chan_list = <<>>
    /\ semaphore = 0
    /\ rx_waker = FALSE
    /\ tx_count = 1
    /\ rx_closed = FALSE
    /\ rx_state = "running"
    /\ rx_pc = "idle"
    /\ rx_woken = FALSE
    /\ sent = <<>>
    /\ received = <<>>
    /\ chan_panicked = FALSE

InitExec ==
    /\ pc = "init"
    /\ int_enabled = TRUE
    /\ tasks = [x \in {} |-> Future("rx", 0, 0)]
    /\ task_queue = <<>>
    /\ waker_cache = {}
    /\ SPAWN_QUEUE = <<>>
    /\ NEXT_ID = 0
    /\ spawned = [x \in {} |-> Future("rx", 0, 0)]
    /\ polls = [x \in {} |-> 0]
    /\ last_polled = NoTask
    /\ panicked = FALSE
    /\ TICK = 0
    /\ NOTIFY_AT = 0
    /\ TIMER_QUEUE = EmptyMap
    /\ FRAMES = <<>>
    /\ WAKER = NoTask
    /\ frames_seen = 0
    /\ delivered = <<>>
    /\ rx_cursor = 0
    /\ capr = 0
    /\ rok_len = 0
    /\ owed = [t \in AllTaskIds |-> {}]

\* The network stack after bring-up: the local address is registered, no
\* peer is known, nothing is bound or connected.
InitNetState ==
    /\ arp_table = EmptyMap
    /\ OPEN_PORTS = EmptyMap
    /\ accept_queue = EmptyMap
    /\ streams = {}
    /\ connections = EmptyMap
    /\ net_out = <<>>
    /\ tx_log = <<>>
    /\ written = EmptyMap
    /\ accepted_log = EmptyMap
    /\ read_log = EmptyMap
    /\ last_read = <<>>
    /\ reader_woken = {}
    /\ net_panicked = FALSE

\* tasks that use the Mutex and the RwLock
LockTasks == 1..MaxLockTasks

\* tasks of the runs in which tasks wait for one lock
Waiters == 1..MaxWaiters

AllLockTasks == LockTasks \cup Waiters

\* Mutex::new(value), RwLock::new(t): unlocked, no guard, no waker
InitSync ==
    /\ mutex_lock = FALSE
    /\ mutex_guards = [t \in AllLockTasks |-> 0]
    /\ mutex_wakers = {}
    /\ rw_state = 0
    /\ read_guards = [t \in AllLockTasks |-> 0]
    /\ write_guards = [t \in AllLockTasks |-> 0]
    /\ read_wakers = {}
    /\ write_wakers = {}
    /\ lock_wait = [t \in AllLockTasks |-> "none"]
    /\ lock_woken = {}
    /\ future_dropped = FALSE

\* no buffer has been handed to the packet views
InitWireIdle ==
    /\ wire_kind = "Tcp"
    /\ wire_in = <<>>
    /\ wire_pkt = <<>>
    /\ wire_out = <<>>
    /\ wire_sets = 0

\* RTL8139::init has taken the state lock's write guard (line 146) and has
\* set bus mastering; the interrupt mask register is not written yet.
InitDrv ==
    /\ state_lock = "init"
    /\ pci_cmd = PCI_BUS_MASTER
    /\ imr_unmasked = FALSE
    /\ isr_spin = FALSE
    /\ isr_runs = FALSE
    /\ drv_pc = "init"
    /\ tx_buffer = <<>>
    /\ tx_cursor = 0
    /\ tx_desc = <<>>
    /\ flush_in = <<>>
    /\ flush_ret = "none"
    /\ tx_wakers = {}
    /\ heap_lock = "free"
    /\ heap_spin = FALSE

\* The kernel is built with the dev profile (overflow checks on) unless a
\* specification says otherwise.
Init ==
    /\ InitExec
    /\ InitChan
    /\ InitNetState
    /\ InitSync
    /\ InitDrv
    /\ InitWireIdle
    /\ overflow_checks = TRUE

\* Either build profile: overflow-checked (dev) or wrapping (release).
InitNet ==
    /\ InitExec
    /\ InitChan
    /\ InitNetState
    /\ InitSync
    /\ InitDrv
    /\ InitWireIdle
    /\ overflow_checks \in BOOLEAN

\* a spawn that stores the task and forgets to push its id
Executor_spawn_NoPush(store, queue, id, fut) ==
    [tasks |-> Insert(store, id, fut),
     queue |-> queue,
     panic |-> (id \in DOMAIN store)]

\* Executor::spawn(task): insert into the task store, push the id
Executor_spawn(store, queue, id, fut) ==
    [tasks |-> Insert(store, id, fut),
     queue |-> Append(queue, id),
     panic |-> (id \in DOMAIN store) \/ Len(queue) >= QueueCap]

\* main: executor.spawn(Task::new(fut))
MainSpawn(fut) ==
    /\ pc = "init"
    /\ ~panicked
    /\ NEXT_ID < MaxTasks
    /\ LET r == Executor_spawn(tasks, task_queue, NEXT_ID, fut) IN
         /\ tasks' = r.tasks
         /\ task_queue' = r.queue
         /\ panicked' = r.panic
    /\ spawned' = Insert(spawned, NEXT_ID, fut)
    /\ polls' = Insert(polls, NEXT_ID, 0)
    /\ NEXT_ID' = NEXT_ID + 1
    /\ UNCHANGED <<pc, int_enabled, waker_cache, SPAWN_QUEUE, last_polled>>
    /\ UNCHANGED <<timerVars, nicVars>>
    /\ UNCHANGED <<chanVars, netVars, syncVars, wireVars, drvVars, obsVars>>

\* async_::spawn(fut) before the executor runs: SPAWN_QUEUE.push(Task::new(fut))
AsyncSpawn(fut) ==
    /\ pc = "init"
    /\ ~panicked
    /\ NEXT_ID < MaxTasks
    /\ SPAWN_QUEUE' = Append(SPAWN_QUEUE, [id |-> NEXT_ID, future |-> fut])
    /\ spawned' = Insert(spawned, NEXT_ID, fut)
    /\ polls' = Insert(polls, NEXT_ID, 0)
    /\ NEXT_ID' = NEXT_ID + 1
    /\ UNCHANGED <<pc, int_enabled, tasks, task_queue, waker_cache, last_polled,
                   panicked>>
    /\ UNCHANGED <<timerVars, nicVars>>
    /\ UNCHANGED <<chanVars, netVars, syncVars, wireVars, drvVars, obsVars>>

\* main: executor.run()
EnterRun ==
    /\ pc = "init"
    /\ ~panicked
    /\ pc' = "merge"
    /\ UNCHANGED <<int_enabled, tasks, task_queue, waker_cache, SPAWN_QUEUE,
                   NEXT_ID, spawned, polls, last_polled, panicked>>
    /\ UNCHANGED <<timerVars, nicVars>>
    /\ UNCHANGED <<chanVars, netVars, syncVars, wireVars, drvVars, obsVars>>

(***************************************************************************)
(* Executor::run, src/src/async/executor.rs                                *)
(***************************************************************************)
\* merge_spawn_queue(): while let Some(task) = SPAWN_QUEUE.pop() { spawn }
RECURSIVE merge_spawn_queue(_, _, _)
merge_spawn_queue(store, queue, spawnq) ==
    IF spawnq = <<>>
    THEN [tasks |-> store, queue |-> queue, panic |-> FALSE]
    ELSE LET r == Executor_spawn(store, queue, Head(spawnq).id,
                                 Head(spawnq).future) IN
         IF r.panic
         THEN r
         ELSE merge_spawn_queue(r.tasks, r.queue, Tail(spawnq))

Merge ==
    /\ pc = "merge"
    /\ ~panicked
    /\ LET r == merge_spawn_queue(tasks, task_queue, SPAWN_QUEUE) IN
         /\ tasks' = r.tasks
         /\ task_queue' = r.queue
         /\ panicked' = r.panic
    /\ SPAWN_QUEUE' = <<>>
    /\ pc' = "run"
    /\ last_polled' = NoTask
    /\ UNCHANGED <<int_enabled, waker_cache, NEXT_ID, spawned, polls>>
    /\ UNCHANGED <<timerVars, nicVars>>
    /\ UNCHANGED <<chanVars, netVars, syncVars, wireVars, drvVars, obsVars>>

\* Sleep::new(period): yield_at = Duration::from_millis(get_milis()) + period
Sleep_new(now, period) == now + period

\* a Sleep that reports ready whatever the time is
Sleep_ready_Always(now, yield_at) == TRUE

\* Sleep::poll's test: current_milis >= self.yield_at.as_millis()
Sleep_ready(now, yield_at) == now >= yield_at

\* Interval::tick after the Sleep fired: self.timer = Some(Sleep::new(period))
Interval_next(now, prev, period) == Sleep_new(now, period)

\* `left` calls of Interval::tick().await in one poll of the task:
\*   self.timer.take().unwrap().await; self.timer = Some(Sleep::new(period))
\* runs until a Sleep is not ready; yield_at is the deadline of that Sleep
RECURSIVE Interval_ticks(_, _, _, _)
Interval_ticks(now, at, left, period) ==
    IF left = 0 \/ ~Sleep_ready(now, at)
    THEN [yield_at |-> at, left |-> left]
    ELSE Interval_ticks(now, Interval_next(now, at, period), left - 1, period)

\* a wake that puts the id at the front of the run queue
wake_task_Front(queue, id) == <<id>> \o queue

\* TaskWaker::wake_task: self.task_queue.push(self.task_id)
wake_task(queue, id) == Append(queue, id)

\* Task::poll of the future `f` of task `tid`, with the run queue `queue`
\* already popped.  The result names every piece of state a poll touches.
\* The poll of an "rx" task is taken step by step, see RxPop below.
PollFuture(tid, f, queue) ==
    CASE f.kind = "yield" ->
           IF f.left > 0
           THEN \* cx.waker().wake_by_ref(); Poll::Pending
                [ready |-> FALSE, future |-> [f EXCEPT !.left = f.left - 1],
                 queue |-> wake_task(queue, tid),
                 wheel |-> TIMER_QUEUE, notify |-> NOTIFY_AT]
           ELSE [ready |-> TRUE, future |-> f, queue |-> queue,
                 wheel |-> TIMER_QUEUE, notify |-> NOTIFY_AT]
      [] f.kind = "spin" ->
           \* loop { cx.waker().wake_by_ref(); Poll::Pending }
           [ready |-> FALSE, future |-> f, queue |-> wake_task(queue, tid),
            wheel |-> TIMER_QUEUE, notify |-> NOTIFY_AT]
      [] f.kind = "sleep" ->
           \* Sleep::new on the first poll: yield_at = get_milis() + period
           LET at == IF f.started THEN f.yield_at
                     ELSE Sleep_new(get_milis, f.period)
               g == [f EXCEPT !.started = TRUE, !.yield_at = at]
           IN  IF Sleep_ready(get_milis, at)
               THEN [ready |-> TRUE, future |-> g, queue |-> queue,
                     wheel |-> TIMER_QUEUE, notify |-> NOTIFY_AT]
               ELSE LET r == push_timer(TIMER_QUEUE, NOTIFY_AT, queue,
                                        get_milis, at, tid)
                    IN  [ready |-> FALSE, future |-> g, queue |-> r.queue,
                         wheel |-> r.wheel, notify |-> r.notify]
      [] f.kind = "interval" ->
           \* Interval::new on the first poll, then the ticks
           LET at == IF f.started THEN f.yield_at
                     ELSE Sleep_new(get_milis, f.period)
               t == Interval_ticks(get_milis, at, f.left, f.period)
               g == [f EXCEPT !.started = TRUE, !.yield_at = t.yield_at,
                              !.left = t.left,
                              !.first = IF f.started THEN f.first ELSE at]
           IN  IF g.left = 0
               THEN [ready |-> TRUE, future |-> g, queue |-> queue,
                     wheel |-> TIMER_QUEUE, notify |-> NOTIFY_AT]
               ELSE LET r == push_timer(TIMER_QUEUE, NOTIFY_AT, queue,
                                        get_milis, g.yield_at, tid)
                    IN  [ready |-> FALSE, future |-> g, queue |-> r.queue,
                         wheel |-> r.wheel, notify |-> r.notify]

\* the id at the head of the run queue is a live task whose next poll
\* calls async_::spawn
HeadSpawns ==
    /\ task_queue # <<>>
    /\ Head(task_queue) \in DOMAIN tasks
    /\ tasks[Head(task_queue)].kind = "spawn"

\* run_ready_tasks(): one iteration of `while let Some(tid) = task_queue.pop()`
RunReady ==
    /\ pc = "run"
    /\ ~panicked
    /\ task_queue # <<>>
    /\ ~HeadSpawns
    /\ LET tid == Head(task_queue)
           rest == Tail(task_queue)
       IN  IF tid \notin DOMAIN tasks
           THEN \* None => continue
                /\ task_queue' = rest
                /\ last_polled' = NoTask
                /\ pc' = "run"
                /\ UNCHANGED <<tasks, waker_cache, polls, panicked>>
                /\ UNCHANGED <<timerVars, nicVars>>
           ELSE IF tasks[tid].kind = "rx"
           THEN \* the poll enters RxSink::poll_next
                /\ polls' = [polls EXCEPT ![tid] = @ + 1]
                /\ last_polled' = tid
                /\ task_queue' = rest
                /\ pc' = "rx_pop"
                /\ UNCHANGED <<tasks, waker_cache, panicked>>
                /\ UNCHANGED <<timerVars, nicVars>>
           ELSE LET r == PollFuture(tid, tasks[tid], rest) IN
                /\ pc' = "run"
                /\ polls' = [polls EXCEPT ![tid] = @ + 1]
                /\ last_polled' = tid
                /\ panicked' = (Len(r.queue) > QueueCap)
                /\ task_queue' = r.queue
                /\ TIMER_QUEUE' = r.wheel
                /\ NOTIFY_AT' = r.notify
                /\ UNCHANGED nicVars
                /\ IF r.ready
                   THEN /\ tasks' = Remove(tasks, tid)
                        /\ waker_cache' = waker_cache \ {tid}
                   ELSE /\ tasks' = [tasks EXCEPT ![tid] = r.future]
                        /\ waker_cache' = waker_cache \cup {tid}
                /\ UNCHANGED TICK
    /\ UNCHANGED <<int_enabled, SPAWN_QUEUE, NEXT_ID, spawned>>
    /\ UNCHANGED <<chanVars, netVars, syncVars, wireVars, drvVars>>

\* the poll of Executor::run as the kernel runs it
RunReadyTasks == RunReady /\ UNCHANGED obsVars

\* a poll_next that returns Pending without looking at the queue again
RxSink_retry_None(frames) == None

\* RxSink::poll_next: the pop after WAKER.register
RxSink_retry(frames) == SegQueue_pop(frames)

\* The poll of the RX task, `loop { rx_sink.next().await }`, step by step: the
\* NIC interrupt can fall between any two steps.
\* RxSink::poll_next: if let Some(x) = FRAMES.pop() { return Ready(Some(x)) };
\* the task takes the frame and calls next() again within the same poll
RxPop ==
    /\ pc = "rx_pop"
    /\ ~panicked
    /\ IF SegQueue_pop(FRAMES) # None
       THEN /\ FRAMES' = Tail(FRAMES)
            /\ delivered' = Append(delivered, Head(FRAMES))
            /\ pc' = "rx_pop"
       ELSE /\ pc' = "rx_register"
            /\ UNCHANGED <<FRAMES, delivered>>
    /\ UNCHANGED <<WAKER, frames_seen, rx_cursor, capr, rok_len>>
    /\ UNCHANGED <<int_enabled, tasks, task_queue, waker_cache, SPAWN_QUEUE,
                   NEXT_ID, spawned, polls, last_polled, panicked>>
    /\ UNCHANGED timerVars
    /\ UNCHANGED <<chanVars, netVars, syncVars, wireVars, drvVars, obsVars>>

\* RxSink::poll_next: WAKER.register(&cx.waker())
RxRegister ==
    /\ pc = "rx_register"
    /\ ~panicked
    /\ WAKER' = last_polled
    /\ pc' = "rx_retry"
    /\ UNCHANGED <<FRAMES, frames_seen, delivered, rx_cursor, capr, rok_len>>
    /\ UNCHANGED <<int_enabled, tasks, task_queue, waker_cache, SPAWN_QUEUE,
                   NEXT_ID, spawned, polls, last_polled, panicked>>
    /\ UNCHANGED timerVars
    /\ UNCHANGED <<chanVars, netVars, syncVars, wireVars, drvVars, obsVars>>

\* RxSink::poll_next: match FRAMES.pop() { Some(x) => .., None => Pending };
\* on Pending the poll of the task ends and run_ready_tasks goes on
RxRetry ==
    /\ pc = "rx_retry"
    /\ ~panicked
    /\ IF RxSink_retry(FRAMES) # None
       THEN /\ FRAMES' = Tail(FRAMES)
            /\ delivered' = Append(delivered, Head(FRAMES))
            /\ pc' = "rx_take"
            /\ UNCHANGED waker_cache
       ELSE /\ pc' = "run"
            /\ waker_cache' = waker_cache \cup {last_polled}
            /\ UNCHANGED <<FRAMES, delivered>>
    /\ UNCHANGED <<WAKER, frames_seen, rx_cursor, capr, rok_len>>
    /\ UNCHANGED <<int_enabled, tasks, task_queue, SPAWN_QUEUE,
                   NEXT_ID, spawned, polls, last_polled, panicked>>
    /\ UNCHANGED timerVars
    /\ UNCHANGED <<chanVars, netVars, syncVars, wireVars, drvVars, obsVars>>

\* RxSink::poll_next: Some(x) => { WAKER.take(); Poll::Ready(Some(x)) }
RxTake ==
    /\ pc = "rx_take"
    /\ ~panicked
    /\ WAKER' = NoTask
    /\ pc' = "rx_pop"
    /\ UNCHANGED <<FRAMES, frames_seen, delivered, rx_cursor, capr, rok_len>>
    /\ UNCHANGED <<int_enabled, tasks, task_queue, waker_cache, SPAWN_QUEUE,
                   NEXT_ID, spawned, polls, last_polled, panicked>>
    /\ UNCHANGED timerVars
    /\ UNCHANGED <<chanVars, netVars, syncVars, wireVars, drvVars, obsVars>>

\* run_ready_tasks() returns: task_queue.pop() gave None
RunDone ==
    /\ pc = "run"
    /\ ~panicked
    /\ task_queue = <<>>
    /\ pc' = "disable"
    /\ last_polled' = NoTask
    /\ UNCHANGED <<int_enabled, tasks, task_queue, waker_cache, SPAWN_QUEUE,
                   NEXT_ID, spawned, polls, panicked>>
    /\ UNCHANGED <<timerVars, nicVars>>
    /\ UNCHANGED <<chanVars, netVars, syncVars, wireVars, drvVars, obsVars>>

\* interrupts::disable()
Disable ==
    /\ pc = "disable"
    /\ ~panicked
    /\ int_enabled' = FALSE
    /\ pc' = "check"
    /\ UNCHANGED <<tasks, task_queue, waker_cache, SPAWN_QUEUE, NEXT_ID, spawned, polls,
                   last_polled, panicked>>
    /\ UNCHANGED <<timerVars, nicVars>>
    /\ UNCHANGED <<chanVars, netVars, syncVars, wireVars, drvVars, obsVars>>

\* an idle step without the re-check: enable_and_hlt() whatever the queue holds
IdleCheckNoRecheck ==
    /\ pc = "check"
    /\ ~panicked
    /\ int_enabled' = TRUE
    /\ pc' = "halted"
    /\ UNCHANGED <<tasks, task_queue, waker_cache, SPAWN_QUEUE, NEXT_ID, spawned, polls,
                   last_polled, panicked>>
    /\ UNCHANGED <<timerVars, nicVars>>
    /\ UNCHANGED <<chanVars, netVars, syncVars, wireVars, drvVars, obsVars>>

\* if task_queue.is_empty() { enable_and_hlt() } else { interrupts::enable() }
IdleCheck ==
    /\ pc = "check"
    /\ ~panicked
    /\ int_enabled' = TRUE
    /\ pc' = IF task_queue = <<>> THEN "halted" ELSE "merge"
    /\ UNCHANGED <<tasks, task_queue, waker_cache, SPAWN_QUEUE, NEXT_ID, spawned, polls,
                   last_polled, panicked>>
    /\ UNCHANGED <<timerVars, nicVars>>
    /\ UNCHANGED <<chanVars, netVars, syncVars, wireVars, drvVars, obsVars>>

(***************************************************************************)
(* Interrupt handlers.  They run only while the interrupt flag is set; a   *)
(* halted CPU resumes after the handler returns, at the top of the loop.   *)
(***************************************************************************)
AfterIrq(p) == IF p = "halted" THEN "merge" ELSE p

\* arch::pit::tick() from exception_irq0
TickIsr ==
    /\ pc # "init"
    /\ ~panicked
    /\ int_enabled
    /\ TICK < MaxTicks
    /\ TICK' = TICK + 1
    /\ LET now == get_milis_of(TICK + 1) IN
         IF NOTIFY_AT # 0 /\ NOTIFY_AT <= now
         THEN LET r == wake_tasks(TIMER_QUEUE, NOTIFY_AT, task_queue, now) IN
                /\ TIMER_QUEUE' = r.wheel
                /\ NOTIFY_AT' = r.notify
                /\ task_queue' = r.queue
                /\ panicked' = (Len(r.queue) > QueueCap)
         ELSE UNCHANGED <<TIMER_QUEUE, NOTIFY_AT, task_queue, panicked>>
    /\ pc' = AfterIrq(pc)
    /\ UNCHANGED <<int_enabled, tasks, waker_cache, SPAWN_QUEUE, NEXT_ID, spawned, polls,
                   last_polled>>
    /\ UNCHANGED nicVars
    /\ UNCHANGED <<chanVars, netVars, syncVars, wireVars, drvVars, obsVars>>

\* x & !3
AlignDown4(x) == x - (x % 4)

\* a cursor update that adds the length and does not align
Rtl8139State_rok_NoAlign(cursor, length) ==
    [panic |-> FALSE,
     rx_cursor |-> (cursor + length + 4) % RX_BUF_LEN,
     capr |-> (cursor + length + 4 - RX_BUF_PAD) % (2 ^ 16)]

\* Rtl8139State::rok with the header at rx_cursor declaring `length`: the
\* assert and the slice buffer[4..length - 4] of &self.buffer[rx_cursor..]
\* panic; otherwise the cursor is advanced and aligned, CAPR is written with
\* the cursor minus 0x10 (as u16), and the cursor is wrapped
Rtl8139State_rok(cursor, length) ==
    IF length < ROK_MIN_LEN \/ length - 4 > RX_BUF_LEN_WRAPPED - cursor
    THEN [panic |-> TRUE, rx_cursor |-> cursor, capr |-> capr]
    ELSE LET unwrapped == AlignDown4(cursor + length + 4 + 3)
         IN  [panic |-> FALSE,
              rx_cursor |-> unwrapped % RX_BUF_LEN,
              capr |-> (unwrapped - RX_BUF_PAD) % (2 ^ 16)]

\* RTL8139::handle_int with RX_OK and one frame in the ring, its header
\* declaring `length`: rok(), FRAMES.push(x), WAKER.wake()
NicIsr(length) ==
    /\ pc # "init"
    /\ ~panicked
    /\ int_enabled
    /\ frames_seen < MaxFrames
    /\ frames_seen' = frames_seen + 1
    /\ FRAMES' = Append(FRAMES, frames_seen + 1)
    /\ WAKER' = NoTask
    /\ task_queue' = IF WAKER # NoTask THEN Append(task_queue, WAKER)
                     ELSE task_queue
    /\ LET r == Rtl8139State_rok(rx_cursor, length) IN
         /\ rx_cursor' = r.rx_cursor
         /\ capr' = r.capr
         /\ rok_len' = length
         /\ panicked' = (r.panic
                         \/ (WAKER # NoTask /\ Len(task_queue) >= QueueCap))
    /\ pc' = AfterIrq(pc)
    /\ UNCHANGED <<int_enabled, tasks, waker_cache, SPAWN_QUEUE, NEXT_ID, spawned, polls,
                   last_polled>>
    /\ UNCHANGED delivered
    /\ UNCHANGED timerVars
    /\ UNCHANGED <<chanVars, netVars, syncVars, wireVars, drvVars, obsVars>>

ExecutorStep ==
    \/ Merge
    \/ RunReadyTasks
    \/ RxPop
    \/ RxRegister
    \/ RxRetry
    \/ RxTake
    \/ RunDone
    \/ Disable
    \/ IdleCheck

Next ==
    \/ \E fut \in Futures : MainSpawn(fut)
    \/ \E fut \in Futures : AsyncSpawn(fut)
    \/ EnterRun
    \/ Merge
    \/ RunReadyTasks
    \/ RxPop
    \/ RxRegister
    \/ RxRetry
    \/ RxTake
    \/ RunDone
    \/ Disable
    \/ IdleCheck
    \/ TickIsr
    \/ NicIsr(ROK_MIN_LEN)

Spec == Init /\ [][Next]_vars

\* The executor is the only flow of control outside the interrupt handlers:
\* whenever it is not halted it takes its next step.
SpecFair == Spec /\ WF_vars(ExecutorStep)

(***************************************************************************)
(* The executor on its own: tasks that wake themselves, a task that spawns *)
(* from inside its poll, and wakes that come from outside the polled task. *)
(***************************************************************************)
ExecFutures ==
    {Future("yield", n, 0) : n \in 0..MaxLoops}
    \cup {Future("spin", 0, 0), Future("spawn", 0, 0)}

\* the future a spawning task hands to async_::spawn
ChildFuture == Future("yield", 0, 0)

\* no task has reached the number of polls the runs follow
PollsBelowCap == \A t \in DOMAIN polls : polls[t] < MaxPolls

\* the polled future wakes its own task before it returns Pending
WakesItself(f) == (f.kind = "yield" /\ f.left > 0) \/ f.kind = "spin"

\* the live tasks whose ids are in `queue`
LiveIn(queue) == {queue[i] : i \in 1..Len(queue)} \cap DOMAIN tasks

\* one iteration of run_ready_tasks, with the observation of who was
\* queued when a self-waking task was polled
RunReadyObs ==
    /\ RunReady
    /\ PollsBelowCap
    /\ LET tid == Head(task_queue)
           rest == Tail(task_queue)
       IN  IF tid \notin DOMAIN tasks
           THEN UNCHANGED owed
           ELSE owed' =
                  [t \in AllTaskIds |->
                     IF t = tid
                     THEN IF WakesItself(tasks[tid]) /\ tid \notin LiveIn(rest)
                          THEN LiveIn(rest)
                          ELSE {}
                     ELSE owed[t] \ {tid}]

\* the poll of a task whose future calls async_::spawn(child) and returns
\* Ready: SPAWN_QUEUE.push(Task::new(child)); the task is removed
RunReadySpawn ==
    /\ pc = "run"
    /\ ~panicked
    /\ HeadSpawns
    /\ NEXT_ID < MaxTasks + MaxChildren
    /\ LET tid == Head(task_queue) IN
         /\ task_queue' = Tail(task_queue)
         /\ tasks' = Remove(tasks, tid)
         /\ waker_cache' = waker_cache \ {tid}
         /\ polls' = Insert([polls EXCEPT ![tid] = @ + 1], NEXT_ID, 0)
         /\ last_polled' = tid
         /\ owed' = [t \in AllTaskIds |-> owed[t] \ {tid}]
    /\ SPAWN_QUEUE' = Append(SPAWN_QUEUE, [id |-> NEXT_ID, future |-> ChildFuture])
    /\ spawned' = Insert(spawned, NEXT_ID, ChildFuture)
    /\ NEXT_ID' = NEXT_ID + 1
    /\ UNCHANGED <<pc, int_enabled, panicked>>
    /\ UNCHANGED <<timerVars, nicVars>>
    /\ UNCHANGED <<chanVars, netVars, syncVars, wireVars, drvVars>>

\* An interrupt handler wakes task `tid` through a waker the task left
\* with it: TaskWaker::wake_task pushes the id and panics on a full queue
WakeTask(tid) ==
    /\ pc # "init"
    /\ ~panicked
    /\ int_enabled
    /\ tid \in waker_cache
    /\ panicked' = (Len(task_queue) >= QueueCap)
    /\ task_queue' = IF Len(task_queue) >= QueueCap THEN task_queue
                     ELSE wake_task(task_queue, tid)
    /\ pc' = AfterIrq(pc)
    /\ UNCHANGED <<int_enabled, tasks, waker_cache, SPAWN_QUEUE, NEXT_ID,
                   spawned, polls, last_polled>>
    /\ UNCHANGED <<timerVars, nicVars>>
    /\ UNCHANGED <<chanVars, netVars, syncVars, wireVars, drvVars, obsVars>>

NextExec ==
    \/ \E fut \in ExecFutures : MainSpawn(fut)
    \/ EnterRun
    \/ Merge
    \/ RunReadyObs
    \/ RunReadySpawn
    \/ RunDone
    \/ Disable
    \/ IdleCheck
    \/ \E tid \in AllTaskIds : Len(task_queue) < MaxRunQueue /\ WakeTask(tid)

SpecExec == Init /\ [][NextExec]_vars

\* one task that stays pending, and wakes of it without bound
NextWakes ==
    \/ NEXT_ID = 0 /\ MainSpawn(Future("sleep", 0, 50))
    \/ EnterRun
    \/ Merge
    \/ PollsBelowCap /\ RunReadyTasks
    \/ RunDone
    \/ Disable
    \/ IdleCheck
    \/ WakeTask(0)

SpecWakes == Init /\ [][NextWakes]_vars

(***************************************************************************)
(* The RTL8139 receive ring on its own: frames of every length arrive, one *)
(* after the other, and rok() walks the ring.                              *)
(***************************************************************************)
\* lengths the frame headers declare: the minimum, lengths that need each
\* of the four alignments, a full-size frame, and one below the minimum
FrameLens == {ROK_MIN_LEN - 1, ROK_MIN_LEN, ROK_MIN_LEN + 1, ROK_MIN_LEN + 2,
              ROK_MIN_LEN + 3, 1522}

\* inner.rok() on a frame whose header declares `length`
RtlRok(length) ==
    /\ ~panicked
    /\ LET r == Rtl8139State_rok(rx_cursor, length) IN
         /\ rx_cursor' = r.rx_cursor
         /\ capr' = r.capr
         /\ panicked' = r.panic
    /\ rok_len' = length
    /\ UNCHANGED <<FRAMES, WAKER, frames_seen, delivered>>
    /\ UNCHANGED <<pc, int_enabled, tasks, task_queue, waker_cache, SPAWN_QUEUE,
                   NEXT_ID, spawned, polls, last_polled>>
    /\ UNCHANGED timerVars
    /\ UNCHANGED <<chanVars, netVars, syncVars, wireVars, drvVars, obsVars>>

NextRok == \E length \in FrameLens : RtlRok(length)

SpecRok == Init /\ [][NextRok]_vars

(***************************************************************************)
(* Unbounded MPSC channel: src/src/sync/mod.rs, src/src/sync/mpsc.rs       *)
(***************************************************************************)
\* values carried by the channel
Values == {1, 2}

\* AtomicUsize as Semaphore
is_idle(sem) == sem \div 2 = 0

is_closed(sem) == sem % 2 = 1

close(sem) == IF sem % 2 = 1 THEN sem ELSE sem + 1

\* a channel that hands out the newest message first
Chan_push_Front(list, value) == <<value>> \o list

\* Chan::send: self.tx.push(value) on the SegQueue
Chan_push(list, value) == Append(list, value)

\* UnboundedSender::send(message): inc_num_messages(), Chan::send, wake_rx()
ChanSend(value) ==
    /\ ~chan_panicked
    /\ tx_count >= 1
    /\ Len(sent) < MaxMsgs
    /\ IF is_closed(semaphore)
       THEN \* inc_num_messages() is false: Err(())
            UNCHANGED <<chan_list, semaphore, rx_waker, rx_woken, sent>>
       ELSE /\ semaphore' = semaphore + 2
            /\ chan_list' = Chan_push(chan_list, value)
            /\ sent' = Append(sent, value)
            \* rx_waker.wake() takes the registered waker and wakes it
            /\ rx_waker' = FALSE
            /\ rx_woken' = (rx_woken \/ rx_waker)
    /\ UNCHANGED <<tx_count, rx_closed, rx_state, rx_pc, received,
                   chan_panicked>>
    /\ UNCHANGED <<execVars, timerVars, nicVars, netVars, syncVars, wireVars, drvVars, obsVars>>

\* impl Clone for Tx: tx_count.fetch_add(1)
ChanClone ==
    /\ ~chan_panicked
    /\ tx_count >= 1
    /\ tx_count < MaxSenders
    /\ tx_count' = tx_count + 1
    /\ UNCHANGED <<chan_list, semaphore, rx_waker, rx_closed, rx_state,
                   rx_pc, rx_woken, sent, received, chan_panicked>>
    /\ UNCHANGED <<execVars, timerVars, nicVars, netVars, syncVars, wireVars, drvVars, obsVars>>

\* impl Drop for Tx: if tx_count.fetch_sub(1) != 1 { return }; wake_rx()
ChanDropTx ==
    /\ ~chan_panicked
    /\ tx_count >= 1
    /\ tx_count' = tx_count - 1
    /\ IF tx_count # 1
       THEN UNCHANGED <<rx_waker, rx_woken>>
       ELSE /\ rx_waker' = FALSE
            /\ rx_woken' = (rx_woken \/ rx_waker)
    /\ UNCHANGED <<chan_list, semaphore, rx_closed, rx_state, rx_pc, sent,
                   received, chan_panicked>>
    /\ UNCHANGED <<execVars, timerVars, nicVars, netVars, syncVars, wireVars, drvVars, obsVars>>

\* try_recv!: what self.list.pop() hands the macro
try_recv(list) == IF list = <<>> THEN None ELSE Some(Head(list))

\* a recv that does not look at the queue again once the waker is registered
Rx_recv_NoRetry(list) == None

\* the second try_recv! of Rx::recv, after rx_waker.register
Rx_recv_retry(list) == try_recv(list)

\* try_recv! got Some(value): add_permit(), return Poll::Ready(Some(value))
RecvReady ==
    /\ chan_list' = Tail(chan_list)
    /\ received' = Append(received, Head(chan_list))
    /\ chan_panicked' = is_idle(semaphore)
    /\ semaphore' = IF is_idle(semaphore) THEN semaphore ELSE semaphore - 2
    /\ rx_state' = "running"
    /\ rx_pc' = "idle"

\* Rx::recv(cx): the executor polls the receiving task, which runs the first
\* try_recv!.  The poll is taken in three steps because a send() made by an
\* interrupt handler can fall between any two of them; send() itself runs to
\* completion, as no step of a poll is ever taken inside it.
ChanRecv ==
    /\ ~chan_panicked
    /\ rx_state # "done"
    /\ rx_pc = "idle"
    /\ rx_woken' = FALSE
    /\ IF try_recv(chan_list) # None
       THEN RecvReady
       ELSE /\ rx_state' = "running"
            /\ rx_pc' = "register"
            /\ UNCHANGED <<chan_list, received, semaphore, chan_panicked>>
    /\ UNCHANGED <<rx_waker, tx_count, rx_closed, sent>>
    /\ UNCHANGED <<execVars, timerVars, nicVars, netVars, syncVars, wireVars, drvVars, obsVars>>

\* Rx::recv(cx): self.inner.rx_waker.register(cx.waker())
ChanRecvRegister ==
    /\ ~chan_panicked
    /\ rx_pc = "register"
    /\ rx_waker' = TRUE
    /\ rx_pc' = "retry"
    /\ UNCHANGED <<chan_list, semaphore, tx_count, rx_closed, rx_state,
                   rx_woken, sent, received, chan_panicked>>
    /\ UNCHANGED <<execVars, timerVars, nicVars, netVars, syncVars, wireVars, drvVars, obsVars>>

\* Rx::recv(cx): the second try_recv!, then the closed-and-idle test
ChanRecvRetry ==
    /\ ~chan_panicked
    /\ rx_pc = "retry"
    /\ IF Rx_recv_retry(chan_list) # None
       THEN RecvReady
       ELSE /\ rx_state' = IF is_idle(semaphore) /\ rx_closed
                           THEN "done" ELSE "pending"
            /\ rx_pc' = "idle"
            /\ UNCHANGED <<chan_list, received, semaphore, chan_panicked>>
    /\ UNCHANGED <<rx_waker, rx_woken, tx_count, rx_closed, sent>>
    /\ UNCHANGED <<execVars, timerVars, nicVars, netVars, syncVars, wireVars, drvVars, obsVars>>

\* Rx::close(), called by the receiving task between two recv() calls
ChanRxClose ==
    /\ ~chan_panicked
    /\ rx_state = "running"
    /\ rx_pc = "idle"
    /\ ~rx_closed
    /\ rx_closed' = TRUE
    /\ semaphore' = close(semaphore)
    /\ UNCHANGED <<chan_list, rx_waker, tx_count, rx_state, rx_pc, rx_woken,
                   sent, received, chan_panicked>>
    /\ UNCHANGED <<execVars, timerVars, nicVars, netVars, syncVars, wireVars, drvVars, obsVars>>

NextChan ==
    \/ \E value \in Values : ChanSend(value)
    \/ ChanClone
    \/ ChanDropTx
    \/ ChanRecv
    \/ ChanRecvRegister
    \/ ChanRecvRetry
    \/ ChanRxClose

SpecChan == Init /\ [][NextChan]_vars

(***************************************************************************)
(* Network stack: src/src/net                                              *)
(*                                                                         *)
(* A frame is modelled by what the accessors of the view types read from   *)
(* its buffer: the lengths of the buffers, the fields the handlers branch  *)
(* on, and the bytes of the TCP payload.                                   *)
(***************************************************************************)
\* netdev.set_ip(Ipv4Addr::new(192, 168, 100, 51))
LocalIp == "192.168.100.51"
PeerIp == "192.168.100.1"
\* an address no local device is bound to
OtherIp == "192.168.100.99"
\* the device's MAC, the peer's, and the MAC of a station that relays
LocalMac == "52:54:00:12:34:56"
PeerMac == "52:54:00:00:00:01"
OtherMac == "52:54:00:00:00:99"
\* Arp.local_arp_table after register_local(lip, lmac): HashMap<Ipv4Addr, Mac>
local_arp_table == [ip \in {LocalIp} |-> LocalMac]

\* u32 values.  The checker's integers are 32-bit signed, so a u32 is held
\* as the two's-complement integer with the same 32 bits: n itself below
\* 2^31, and n - 2^32 from 2^31 up (u32::MAX is held as -1).  Addition of a
\* small non-negative b and the unsigned comparisons are defined on that
\* representation and agree with the u32 operations bit for bit.
I32_MAX == 2147483647
U32_MAX == 0 - 1
\* a.wrapping_add(b), for 0 <= b < 2^31
wrapping_add(a, b) ==
    IF a >= 0 /\ b > I32_MAX - a
    THEN (a - I32_MAX - 1) + (b - I32_MAX - 1)
    ELSE a + b
\* a + b does not fit a u32 (a panic when the build checks for overflow)
overflows(a, b) == a < 0 /\ a + b >= 0
\* a < b and a <= b on u32
ult(a, b) == IF (a < 0) = (b < 0) THEN a < b ELSE b < 0
ule(a, b) == a = b \/ ult(a, b)

\* Tcp::zeroed(): a 20-byte buffer of zeroes.  tail is the buffer past the
\* fixed 20-byte header; hlen is the data-offset field in bytes.
Tcp_zeroed ==
    [src |-> 0, dst |-> 0, seq |-> 0, ack |-> 0, flags |-> {},
     window |-> 0, hlen |-> 0, tail |-> <<>>]

\* Tcp::len(): the length of the buffer
Tcp_len(tcp) == 20 + Len(tcp.tail)

\* Tcp::data() / Tcp::dlen(): &self.0[hlen..]; the slice index panics when
\* hlen is past the end of the buffer
Tcp_data_panics(tcp) == tcp.hlen > Tcp_len(tcp)
Tcp_data(tcp) == SubSeq(tcp.tail, tcp.hlen - 20 + 1, Len(tcp.tail))

\* TcpConnection::ack: <SEQ=SND.NXT><ACK=RCV.NXT><CTL=ACK>
TcpConnection_ack(c) ==
    [Tcp_zeroed EXCEPT !.flags = {"ACK"}, !.dst = c.quad[2], !.src = c.quad[4],
                       !.hlen = 20, !.seq = c.snd_nxt, !.ack = c.rcv_nxt,
                       !.window = c.rcv_wnd]

\* TcpConnection::reset: the incoming segment with ports swapped to the
\* connection's, flags replaced by RST, SEQ and ACK zeroed
TcpConnection_reset(c, tcp) ==
    [tcp EXCEPT !.dst = c.quad[2], !.src = c.quad[4], !.flags = {"RST"},
                !.seq = 0, !.ack = 0]

\* an accept that drops a stray ACK without answering it
TcpConnection_accept_NoRst(tcp, sip, dip, checks) ==
    IF "SYN" \in tcp.flags /\ tcp.flags \cap {"RST", "ACK"} = {}
    THEN LET this ==
                [state |-> "SYN_RECEIVED",
                 snd_iss |-> 0, snd_una |-> 0, snd_nxt |-> 1, snd_wnd |-> 1024,
                 snd_up |-> FALSE, snd_wl1 |-> 0, snd_wl2 |-> 0,
                 rcv_irs |-> tcp.seq,
                 rcv_nxt |-> wrapping_add(tcp.seq, 1),
                 rcv_wnd |-> tcp.window, rcv_up |-> FALSE,
                 quad |-> <<sip, tcp.src, dip, tcp.dst>>,
                 data |-> <<>>, waker |-> FALSE, last_ipv4_id |-> 0]
         IN  [ok |-> TRUE, panic |-> FALSE, conn |-> Some(this),
              out |-> Some([Tcp_zeroed EXCEPT !.dst = tcp.src, !.src = tcp.dst,
                                              !.flags = {"SYN", "ACK"},
                                              !.seq = 0, !.ack = this.rcv_nxt,
                                              !.hlen = 20])]
    ELSE [ok |-> FALSE, panic |-> FALSE, conn |-> None, out |-> None]

\* TcpConnection::accept(tcp, ip, mac, dst_mac): RFC 793 LISTEN processing.
\* ok: Ok((conn, out)); otherwise Err(out).  checks: the build profile.
TcpConnection_accept(tcp, sip, dip, checks) ==
    IF "RST" \in tcp.flags THEN
        [ok |-> FALSE, panic |-> FALSE, conn |-> None, out |-> None]
    ELSE IF "ACK" \in tcp.flags THEN
        [ok |-> FALSE, panic |-> FALSE, conn |-> None,
         out |-> Some([Tcp_zeroed EXCEPT !.dst = tcp.src, !.src = tcp.dst,
                                         !.flags = {"RST"}, !.seq = tcp.ack,
                                         !.hlen = 20])]
    ELSE IF "SYN" \notin tcp.flags THEN
        [ok |-> FALSE, panic |-> FALSE, conn |-> None, out |-> None]
    ELSE IF checks /\ overflows(tcp.seq, 1) THEN
        \* rcv_nxt: tcp.seq() + 1
        [ok |-> FALSE, panic |-> TRUE, conn |-> None, out |-> None]
    ELSE
        LET this ==
                [state |-> "SYN_RECEIVED",
                 snd_iss |-> 0, snd_una |-> 0, snd_nxt |-> 1, snd_wnd |-> 1024,
                 snd_up |-> FALSE, snd_wl1 |-> 0, snd_wl2 |-> 0,
                 rcv_irs |-> tcp.seq,
                 rcv_nxt |-> wrapping_add(tcp.seq, 1),
                 rcv_wnd |-> tcp.window, rcv_up |-> FALSE,
                 quad |-> <<sip, tcp.src, dip, tcp.dst>>,
                 data |-> <<>>, waker |-> FALSE, last_ipv4_id |-> 0]
        IN  [ok |-> TRUE, panic |-> FALSE, conn |-> Some(this),
             out |-> Some([Tcp_zeroed EXCEPT !.dst = this.quad[2],
                                             !.src = this.quad[4],
                                             !.flags = {"SYN", "ACK"},
                                             !.seq = this.snd_iss,
                                             !.ack = this.rcv_nxt,
                                             !.hlen = 20])]

\* What TcpConnection::handle_packet returns and does: the connection after
\* the call, the reply, whether it panicked, whether the reader's waker was
\* taken and woken, and the bytes appended to the receive buffer.
Ret(c, out) ==
    [conn |-> c, out |-> out, panic |-> FALSE, woke |-> FALSE, appended |-> <<>>]
Panic(c) ==
    [conn |-> c, out |-> None, panic |-> TRUE, woke |-> FALSE, appended |-> <<>>]

\* eighth, check the FIN bit
handle_fin(c, tcp) ==
    IF "FIN" \in tcp.flags THEN
        IF c.state \in {"CLOSE", "LISTEN", "SYNSENT"} THEN Ret(c, None)
        ELSE IF c.state \in {"SYN_RECEIVED", "ESTABLISHED"}
             THEN Ret([c EXCEPT !.state = "CLOSE_WAIT"], None)
        ELSE IF c.state = "FIN_WAIT_1"
             THEN Ret([c EXCEPT !.state = "FIN_WAIT_2"], None)
        ELSE Ret(c, None)
    ELSE Ret(c, None)

\* seventh, process the segment text
handle_text(c, tcp, checks) ==
    IF Tcp_data_panics(tcp) THEN Panic(c)
    ELSE IF Len(Tcp_data(tcp)) > 0
            /\ c.state \in {"ESTABLISHED", "FIN_WAIT_1", "FIN_WAIT_2"}
    THEN IF tcp.seq = c.rcv_nxt
         THEN IF checks /\ overflows(c.rcv_nxt, Len(Tcp_data(tcp)))
              THEN \* self.rcv_nxt += tcp.dlen() as u32, after the extend
                   [Panic([c EXCEPT !.data = c.data \o Tcp_data(tcp)])
                      EXCEPT !.appended = Tcp_data(tcp)]
              ELSE LET c1 == [c EXCEPT
                                !.data = c.data \o Tcp_data(tcp),
                                !.rcv_nxt = wrapping_add(c.rcv_nxt, Len(Tcp_data(tcp))),
                                !.waker = FALSE]
                   IN  [conn |-> c1, out |-> Some(TcpConnection_ack(c1)),
                        panic |-> FALSE, woke |-> c.waker,
                        appended |-> Tcp_data(tcp)]
         ELSE \* unimplemented!(): a segment that is not the left-most one
              Panic(c)
    ELSE handle_fin(c, tcp)

\* sixth, check the URG bit: unimplemented!()
handle_urg(c, tcp, checks) ==
    IF "URG" \in tcp.flags THEN Panic(c) ELSE handle_text(c, tcp, checks)

\* fifth, check the ACK field
handle_ack(c, tcp, checks) ==
    IF "ACK" \in tcp.flags THEN
        IF c.state = "SYN_RECEIVED"
        THEN handle_urg([c EXCEPT !.state = "ESTABLISHED"], tcp, checks)
        ELSE IF /\ c.state \in {"ESTABLISHED", "FIN_WAIT_1", "FIN_WAIT_2",
                                "CLOSE_WAIT", "CLOSING", "LAST_ACK"}
                /\ ult(c.snd_una, tcp.ack)
                /\ ule(tcp.ack, c.snd_nxt)
        THEN LET upd == \/ ult(c.snd_wl1, tcp.seq)
                        \/ (c.snd_wl1 = tcp.seq /\ ule(c.snd_wl2, tcp.ack))
                 c1 == [c EXCEPT
                          !.snd_una = tcp.ack,
                          !.snd_wnd = IF upd THEN tcp.window ELSE @,
                          !.snd_wl1 = IF upd THEN tcp.seq ELSE @,
                          !.snd_wl2 = IF upd THEN tcp.ack ELSE @,
                          !.state = IF @ = "FIN_WAIT_1" THEN "FIN_WAIT_2" ELSE @]
             IN  handle_urg(c1, tcp, checks)
        ELSE handle_urg(c, tcp, checks)
    ELSE handle_urg(c, tcp, checks)

\* fourth, check the SYN bit: close and reset
handle_syn(c, tcp, checks) ==
    IF "SYN" \in tcp.flags
    THEN LET c1 == [c EXCEPT !.state = "CLOSE"]
         IN  Ret(c1, Some(TcpConnection_reset(c1, tcp)))
    ELSE handle_ack(c, tcp, checks)

\* second, check the RST bit
handle_rst(c, tcp, checks) ==
    IF "RST" \in tcp.flags
    THEN IF c.state \in {"SYNSENT", "LISTEN", "CLOSE"}
         THEN Ret(c, None)
         ELSE Ret([c EXCEPT !.state = "CLOSE"], None)
    ELSE handle_syn(c, tcp, checks)

\* the SYN-SENT state
handle_synsent(c, tcp, checks) ==
    IF c.state # "SYNSENT" THEN handle_rst(c, tcp, checks)
    ELSE IF "ACK" \in tcp.flags
            /\ (ule(tcp.ack, c.snd_iss) \/ ult(c.snd_nxt, tcp.ack))
    THEN Ret(c, None)
    ELSE IF /\ "ACK" \in tcp.flags
            /\ ule(c.snd_una, tcp.ack) /\ ule(tcp.ack, c.snd_nxt)
            /\ "RST" \in tcp.flags
    THEN Ret(c, None)
    ELSE IF "SYN" \in tcp.flags
    THEN IF checks /\ (overflows(tcp.seq, 1)
                        \/ ("ACK" \in tcp.flags /\ overflows(c.snd_una, 1)))
         THEN Panic(c)
         ELSE LET c1 == [c EXCEPT
                           !.rcv_nxt = wrapping_add(tcp.seq, 1),
                           !.rcv_irs = tcp.seq,
                           !.snd_una = IF "ACK" \in tcp.flags
                                       THEN wrapping_add(@, 1) ELSE @]
              IN  IF ult(c1.snd_iss, c1.snd_una)
                  THEN LET c2 == [c1 EXCEPT !.state = "ESTABLISHED"]
                       IN  Ret(c2, Some(TcpConnection_ack(c2)))
                  ELSE IF "RST" \notin tcp.flags
                  THEN Ret(c1, None)
                  ELSE handle_rst(c1, tcp, checks)
    ELSE Ret(c, None)

\* TcpConnection::handle_packet(tcp, ip): RFC 793 segment arrives
TcpConnection_handle_packet(c, tcp, checks) ==
    \* handle keep_alives
    IF c.state = "ESTABLISHED" /\ "ACK" \in tcp.flags /\ "PSH" \notin tcp.flags
    THEN Ret(c, Some(TcpConnection_ack(c)))
    ELSE handle_synsent(c, tcp, checks)

\* lookup with a default for keys not yet present
Get(f, k) == IF k \in DOMAIN f THEN f[k] ELSE <<>>

\* What one ingress call returns and does to the stack's state.
NoEffect ==
    [out |-> None, panic |-> FALSE, connections |-> connections,
     accept_queue |-> accept_queue, arp_table |-> arp_table,
     woke |-> {}, appended |-> <<>>, key |-> None]

\* ARP_LAYER.resolve_ip(ip) as the TCP layer calls it, with one argument:
\* Some exactly when the remote table maps a MAC to the address.  (The
\* two-argument Arp::resolve_ip(ip, local) is Arp_resolve_ip below.)
resolve_ip(ip) == \E m \in DOMAIN arp_table : arp_table[m] = ip
\* Arp::resolve_ip_local
resolve_ip_local(ip) == ip \in DOMAIN local_arp_table

\* TcpLayer::handle_packet(packet, ctx)
TcpLayer_handle_packet(tcp, sip, dip) ==
    LET conn_key == <<sip, tcp.src, dip, tcp.dst>> IN
    IF ~resolve_ip_local(dip) \/ ~resolve_ip(sip) THEN
        \* .expect("failed to get local mac") / .expect("failed to resolve remote ip")
        [NoEffect EXCEPT !.panic = TRUE]
    ELSE IF conn_key \in DOMAIN connections THEN
        LET r == TcpConnection_handle_packet(connections[conn_key], tcp,
                                             overflow_checks)
        IN  [NoEffect EXCEPT
               !.out = r.out, !.panic = r.panic,
               !.connections = Insert(connections, conn_key, r.conn),
               !.woke = IF r.woke THEN {conn_key} ELSE {},
               !.appended = r.appended, !.key = Some(conn_key)]
    ELSE IF tcp.dst \in DOMAIN OPEN_PORTS THEN
        LET a == TcpConnection_accept(tcp, sip, dip, overflow_checks) IN
        IF a.ok THEN
            \* listener.send(stream), then entry.insert(conn)
            [NoEffect EXCEPT
               !.out = a.out,
               !.accept_queue =
                    Insert(accept_queue, OPEN_PORTS[tcp.dst],
                           Append(Get(accept_queue, OPEN_PORTS[tcp.dst]),
                                  conn_key)),
               !.connections = Insert(connections, conn_key, a.conn[1]),
               !.key = Some(conn_key)]
        ELSE [NoEffect EXCEPT !.out = a.out, !.panic = a.panic]
    ELSE NoEffect

\* Icmp::set_checksum: copy_from_slice panics unless the source and the
\* destination slices have the same length.  The destination is the
\* checksum field (bytes 2..=3); the source is csum.to_le_bytes() of a u32.
ICMP_ECHO_CSUM_LEN == 2
U32_BYTES == 4
Icmp_set_checksum_panics == ICMP_ECHO_CSUM_LEN # U32_BYTES

\* IcmpLayer::handle_packet.  ub: what the build does with an IcmpType
\* transmuted from a byte that is no variant ("wildcard": the match falls to
\* the `_` arm; "abort": it does not return).
IcmpLayer_handle_packet(icmp, ub) ==
    IF icmp.type = "Echo" THEN
        IF Icmp_set_checksum_panics
        THEN [NoEffect EXCEPT !.panic = TRUE]
        ELSE [NoEffect EXCEPT !.out = Some([type |-> "EchoReply"])]
    ELSE IF icmp.type = "invalid" /\ ub = "abort"
    THEN [NoEffect EXCEPT !.panic = TRUE]
    ELSE NoEffect

\* const IPV4_MIN_VALID_LENGTH / IPV4_DATA_OFFSET / ICMP_ECHO_MIN_SIZE /
\* TCP_MIN_LEN / MIN_ARP_LEN and the end of ARP_TIP
IPV4_MIN_VALID_LENGTH == 20
IPV4_DATA_OFFSET == 22
ICMP_ECHO_MIN_SIZE == 8
TCP_MIN_LEN == 20
MIN_ARP_LEN == 27
ARP_TIP_END == 27
\* for _ in 0usize..5
ARP_ATTEMPTS == 5

\* Ipv4::data(): &self.0[22..]; the slice index panics on a shorter buffer
Ipv4_data_panics(packet) == packet.len < IPV4_DATA_OFFSET
Ipv4_data_len(packet) == packet.len - IPV4_DATA_OFFSET

\* the reply IpLayer::handle_packet builds around the upper layer's reply
Ipv4_reply(packet, proto, data) ==
    [dtype |-> "IPv4", proto |-> proto, sip |-> packet.dip, dip |-> packet.sip,
     l4 |-> data]

\* IpLayer::handle_packet(packet, frame)
IpLayer_handle_packet(packet, ub) ==
    IF ~resolve_ip_local(packet.dip) THEN NoEffect
    ELSE IF packet.proto = "ICMP" THEN
        IF Ipv4_data_panics(packet) THEN [NoEffect EXCEPT !.panic = TRUE]
        ELSE IF Ipv4_data_len(packet) < ICMP_ECHO_MIN_SIZE THEN NoEffect
        ELSE LET r == IcmpLayer_handle_packet(packet.l4[1], ub) IN
             IF r.out = None THEN r
             ELSE [r EXCEPT !.out = Some(Ipv4_reply(packet, "ICMP", r.out[1]))]
    ELSE IF packet.proto = "TCP" THEN
        IF Ipv4_data_panics(packet) THEN [NoEffect EXCEPT !.panic = TRUE]
        ELSE IF Ipv4_data_len(packet) < TCP_MIN_LEN THEN NoEffect
        ELSE LET r == TcpLayer_handle_packet(packet.l4[1], packet.sip, packet.dip) IN
             IF r.out = None THEN r
             ELSE [r EXCEPT !.out = Some(Ipv4_reply(packet, "TCP", r.out[1]))]
    ELSE IF packet.proto = "invalid" /\ ub = "abort"
    THEN \* Ipv4Proto transmuted from a byte that is no variant
         [NoEffect EXCEPT !.panic = TRUE]
    ELSE NoEffect

\* a handler that answers and does not store the sender
Arp_learn_Nothing(table, smac, sip) == table

\* self.arp_table.write().await.insert(packet.smac(), packet.sip())
Arp_learn(table, smac, sip) == Insert(table, smac, sip)

\* Arp::handle_packet(packet, frame)
Arp_handle_packet(packet) ==
    IF packet.len <= ARP_TIP_END THEN
        \* packet.tip() indexes bytes 24..=27
        [NoEffect EXCEPT !.panic = TRUE]
    ELSE IF packet.tip \notin DOMAIN local_arp_table THEN
        \* local_arp_table.get(&packet.tip())? is None
        NoEffect
    ELSE LET local_mac == local_arp_table[packet.tip]
             r1 == [packet EXCEPT !.tmac = packet.smac]
             r2 == [r1 EXCEPT !.smac = local_mac]
             r3 == [r2 EXCEPT !.tip = r2.sip]
             r4 == [r3 EXCEPT !.sip = packet.tip]
             reply == [r4 EXCEPT !.opcode = "ArpReply"]
         IN  [NoEffect EXCEPT
                !.arp_table = Arp_learn(arp_table, packet.smac, packet.sip),
                !.out = Some(reply)]

\* the ARP packet a frame carries: ArpPacket::from_bytes(ctx.data().to_vec())
ArpPacket(frame) ==
    [len |-> frame.len, opcode |-> frame.opcode, smac |-> frame.smac,
     sip |-> frame.sip, tmac |-> frame.tmac, tip |-> frame.tip]

\* the frame Ethernet::handle_rx builds around the upper layer's reply:
\* set_dst(ctx.src()), set_src(device_mac), set_dtype, set_data
Ether2Frame_reply(ctx, device_mac, frame_type, data) ==
    [dst |-> ctx.src, src |-> device_mac, dtype |-> frame_type,
     data |-> data]

\* Ethernet::handle_rx(frame, device_mac)
Ethernet_handle_rx(frame, ub) ==
    IF frame.dtype = "IPv4" THEN
        IF frame.len < IPV4_MIN_VALID_LENGTH THEN NoEffect
        ELSE LET r == IpLayer_handle_packet(frame, ub) IN
             IF r.out = None THEN r
             ELSE [r EXCEPT !.out = Some(Ether2Frame_reply(frame, LocalMac,
                                                           "IPv4", r.out[1]))]
    ELSE IF frame.dtype = "ARP" THEN
        IF frame.len < MIN_ARP_LEN THEN NoEffect
        ELSE LET r == Arp_handle_packet(ArpPacket(frame)) IN
             IF r.out = None THEN r
             ELSE [r EXCEPT !.out = Some(Ether2Frame_reply(frame, LocalMac,
                                                           "ARP", r.out[1]))]
    ELSE IF frame.dtype = "invalid" /\ ub = "abort"
    THEN \* EtherType transmuted from a u16 that is no variant
         [NoEffect EXCEPT !.panic = TRUE]
    ELSE NoEffect

(***************************************************************************)
(* The frames the peer sends.                                              *)
(***************************************************************************)
\* the port TcpListener::bind is called with, and a port nobody binds
ListenPort == 1234
ClosedPort == 80
\* the peer's source port
PeerPort == 4000
\* initial sequence numbers the peer opens with
PeerIsns == {1000, U32_MAX}
\* the window the peer advertises
PeerWindow == 65535

FlagSets ==
    {{}, {"SYN"}, {"ACK"}, {"SYN", "ACK"}, {"PSH", "ACK"}, {"PSH"}, {"RST"},
     {"FIN"}, {"FIN", "ACK"}, {"URG", "ACK"}}
Payloads == {<<>>, <<1>>, <<2, 3>>}

TheKey == <<PeerIp, PeerPort, LocalIp, ListenPort>>

\* sequence numbers worth sending: the peer's ISNs before the connection
\* exists, RCV.NXT and the number after it once it does
SeqChoices ==
    IF TheKey \in DOMAIN connections
    THEN {connections[TheKey].rcv_nxt, wrapping_add(connections[TheKey].rcv_nxt, 1)}
    ELSE PeerIsns

Segment(dst, flags, seq, ack, hlen, tail) ==
    [src |-> PeerPort, dst |-> dst, seq |-> seq, ack |-> ack, flags |-> flags,
     window |-> PeerWindow, hlen |-> hlen, tail |-> tail]

\* The segments the peer sends: every flag set with every sequence number
\* and payload, acknowledging the host's SYN; a few that acknowledge
\* nothing, that carry a data offset past the end of the buffer, or that
\* go to the closed port.  The peer sends at most MaxRxBytes bytes of
\* payload that a connection takes.
Segments ==
    {Segment(ListenPort, f, s, IF "ACK" \in f THEN 1 ELSE 0, 20, p) :
        f \in FlagSets, s \in SeqChoices,
        p \in {q \in Payloads :
                 Len(Get(accepted_log, TheKey)) + Len(q) <= MaxRxBytes}}
    \cup {Segment(ListenPort, f, s, 0, 20, <<>>) :
            f \in {{"ACK"}, {"PSH", "ACK"}}, s \in SeqChoices}
    \cup {Segment(ListenPort, {"PSH", "ACK"}, s, 1, 60, <<>>) : s \in SeqChoices}
    \cup {Segment(ClosedPort, f, s, 0, 20, <<>>) :
            f \in {{"SYN"}, {"ACK"}}, s \in PeerIsns}

IpPacket(len, dip, proto, l4) ==
    [dtype |-> "IPv4", src |-> PeerMac, len |-> len, sip |-> PeerIp,
     dip |-> dip, proto |-> proto, l4 |-> l4]

TcpFrame(seg) ==
    IpPacket(IPV4_DATA_OFFSET + Tcp_len(seg), LocalIp, "TCP", Some(seg))

IcmpTypes == {"Echo", "EchoReply", "invalid"}

\* IPv4 packets that carry no TCP segment for a local address: buffers
\* around the minimum lengths, other destinations, ICMP, other protocols
OtherIpv4Frames ==
    {IpPacket(l, LocalIp, p, None) :
        l \in {IPV4_MIN_VALID_LENGTH - 1, IPV4_MIN_VALID_LENGTH,
               IPV4_DATA_OFFSET - 1},
        p \in {"ICMP", "TCP", "UDP"}}
    \cup {IpPacket(IPV4_DATA_OFFSET + TCP_MIN_LEN, OtherIp, "TCP", None)}
    \cup {IpPacket(IPV4_DATA_OFFSET + l, LocalIp, "ICMP", Some([type |-> t])) :
            l \in {ICMP_ECHO_MIN_SIZE - 1, ICMP_ECHO_MIN_SIZE}, t \in IcmpTypes}
    \cup {IpPacket(IPV4_DATA_OFFSET + ICMP_ECHO_MIN_SIZE, LocalIp, p, None) :
            p \in {"UDP", "Unknown", "invalid"}}
    \cup {IpPacket(IPV4_DATA_OFFSET + TCP_MIN_LEN - 1, LocalIp, "TCP", None)}

\* ARP packets of the peer, sent by the peer itself or relayed by another
\* station, around the minimum length
ArpFrames ==
    [dtype : {"ARP"}, src : {PeerMac, OtherMac}, len : {MIN_ARP_LEN + 1},
     smac : {PeerMac}, sip : {PeerIp},
     tmac : {"00:00:00:00:00:00"}, tip : {LocalIp, OtherIp},
     opcode : {"ArpRequest", "ArpReply"}]
    \cup [dtype : {"ARP"}, src : {PeerMac},
          len : {MIN_ARP_LEN - 1, MIN_ARP_LEN},
          smac : {PeerMac}, sip : {PeerIp},
          tmac : {"00:00:00:00:00:00"}, tip : {LocalIp},
          opcode : {"ArpRequest"}]

OtherFrames == [dtype : {"Ipv6", "Unsupported", "invalid"}, src : {PeerMac}]

\* whether a frame carries a byte that is no variant of the enum it is
\* transmuted into
HasInvalidTag(frame) ==
    \/ frame.dtype = "invalid"
    \/ frame.dtype = "IPv4" /\ frame.proto = "invalid"
    \/ frame.dtype = "IPv4" /\ frame.proto = "ICMP" /\ frame.l4 # None
         /\ frame.l4[1].type = "invalid"

\* what an invalid enum discriminant may do
UbOutcomes(frame) ==
    IF HasInvalidTag(frame) THEN {"wildcard", "abort"} ELSE {"wildcard"}

(***************************************************************************)
(* Ingress: one frame through Ethernet::handle_rx.                         *)
(***************************************************************************)
NetworkRx(frame, ub) ==
    /\ ~net_panicked
    /\ \E r \in {Ethernet_handle_rx(frame, ub)} :
       /\ net_panicked' = r.panic
       /\ net_out' = r.out
       /\ connections' = r.connections
       /\ accept_queue' = r.accept_queue
       /\ arp_table' = r.arp_table
       /\ reader_woken' = reader_woken \cup r.woke
       /\ accepted_log' =
            IF r.key = None THEN accepted_log
            ELSE Insert(accepted_log, r.key[1],
                        Get(accepted_log, r.key[1]) \o r.appended)
    /\ last_read' = None
    /\ UNCHANGED <<overflow_checks, OPEN_PORTS, streams, tx_log, written, read_log>>
    /\ UNCHANGED <<execVars, timerVars, nicVars, chanVars, syncVars, wireVars, drvVars, obsVars>>

EthRxTcp == \E seg \in Segments : NetworkRx(TcpFrame(seg), "wildcard")
EthRxIpv4 == \E f \in OtherIpv4Frames : \E ub \in UbOutcomes(f) : NetworkRx(f, ub)
EthRxArp == \E f \in ArpFrames : NetworkRx(f, "wildcard")
EthRxOther == \E f \in OtherFrames : \E ub \in UbOutcomes(f) : NetworkRx(f, ub)

(***************************************************************************)
(* The socket surface: src/src/net/socks.rs                                *)
(***************************************************************************)
\* a bind that replaces the sender of a port that is already bound
TcpListener_bind_Overwrite(ports, port, id) ==
    [ok |-> TRUE, ports |-> Insert(ports, port, id)]

\* TcpListener::bind(port): Err(()) when the port is already bound,
\* otherwise ports.insert(port, tx) and Ok(Self { rx }); id names the channel
TcpListener_bind(ports, port, id) ==
    IF port \in DOMAIN ports
    THEN [ok |-> FALSE, ports |-> ports]
    ELSE [ok |-> TRUE, ports |-> Insert(ports, port, id)]

\* the result of a bind call as net_out shows it
BindResult(port, ok) == Some([bind |-> port, ok |-> ok])

TcpListenerBind(port) ==
    /\ ~net_panicked
    /\ Cardinality(DOMAIN accept_queue) < MaxListeners
    /\ LET id == Cardinality(DOMAIN accept_queue) + 1
           r == TcpListener_bind(OPEN_PORTS, port, id)
       IN  /\ OPEN_PORTS' = r.ports
           /\ net_out' = BindResult(port, r.ok)
           /\ accept_queue' = IF r.ok THEN Insert(accept_queue, id, <<>>)
                              ELSE accept_queue
    /\ last_read' = None
    /\ UNCHANGED <<overflow_checks, arp_table, streams, connections, tx_log,
                   written, accepted_log, read_log, reader_woken, net_panicked>>
    /\ UNCHANGED <<execVars, timerVars, nicVars, chanVars, syncVars, wireVars, drvVars, obsVars>>

\* TcpListener::accept() on listener l: the next stream the TCP layer sent
TcpListenerAccept(l) ==
    /\ ~net_panicked
    /\ l \in DOMAIN accept_queue
    /\ accept_queue[l] # <<>>
    /\ streams' = streams \cup {Head(accept_queue[l])}
    /\ accept_queue' = Insert(accept_queue, l, Tail(accept_queue[l]))
    /\ net_out' = None /\ last_read' = None
    /\ UNCHANGED <<overflow_checks, arp_table, OPEN_PORTS, connections, tx_log,
                   written, accepted_log, read_log, reader_woken, net_panicked>>
    /\ UNCHANGED <<execVars, timerVars, nicVars, chanVars, syncVars, wireVars, drvVars, obsVars>>

(***************************************************************************)
(* Arp::resolve_ip(ip, local): src/src/net/arp.rs                          *)
(***************************************************************************)
\* ArpPacket::zeroed(): vec![0; MIN_ARP_LEN]
ArpPacket_zeroed_len == MIN_ARP_LEN

\* Arp::arp_query: request.set_tip(ip) writes bytes 24..=27 of the zeroed
\* packet; the slice index panics when the buffer ends before byte 27
Arp_query_panics == ArpPacket_zeroed_len <= ARP_TIP_END

\* the MACs the table maps to ip
Arp_find(table, ip) == {m \in DOMAIN table : table[m] = ip}

\* the loop of resolve_ip from attempt n on, the table staying as it is:
\* arp_query, Sleep 1000 ms, look the address up
RECURSIVE Arp_resolve_loop(_, _, _)
Arp_resolve_loop(table, ip, n) ==
    IF n > ARP_ATTEMPTS
    THEN [ret |-> None, requests |-> ARP_ATTEMPTS, panic |-> FALSE]
    ELSE IF Arp_find(table, ip) # {}
    THEN [ret |-> Some(CHOOSE m \in Arp_find(table, ip) : TRUE),
          requests |-> n, panic |-> FALSE]
    ELSE Arp_resolve_loop(table, ip, n + 1)

\* Arp::resolve_ip(ip, local): the first lookup's result is dropped, the
\* local MAC is looked up, then the query loop runs
Arp_resolve_ip(table, ip, local) ==
    IF local \notin DOMAIN local_arp_table
    THEN [ret |-> None, requests |-> 0, panic |-> FALSE]
    ELSE IF Arp_query_panics
    THEN [ret |-> None, requests |-> 0, panic |-> TRUE]
    ELSE Arp_resolve_loop(table, ip, 1)

\* a task calls ARP_LAYER.resolve_ip(ip, local)
ArpResolve(ip, local) ==
    /\ ~net_panicked
    /\ net_panicked' = Arp_resolve_ip(arp_table, ip, local).panic
    /\ net_out' = None /\ last_read' = None
    /\ UNCHANGED <<overflow_checks, arp_table, OPEN_PORTS,
                   accept_queue, streams, connections, tx_log, written,
                   accepted_log, read_log, reader_woken>>
    /\ UNCHANGED <<execVars, timerVars, nicVars, chanVars, syncVars, wireVars, drvVars, obsVars>>

\* a read that hands out the bytes and empties the whole buffer
TcpConnection_read_DrainAll(data, n) ==
    [n |-> Min({n, Len(data)}), bytes |-> SubSeq(data, 1, Min({n, Len(data)})),
     rest |-> <<>>]

\* TcpConnection::read(buffer): copy min(buffer.len(), data.len()) bytes and
\* drain them
TcpConnection_read(data, n) ==
    LET min_len == Min({n, Len(data)})
    IN  [n |-> min_len, bytes |-> SubSeq(data, 1, min_len),
         rest |-> SubSeq(data, min_len + 1, Len(data))]

\* buffer lengths read() is called with
ReadSizes == 0..MaxBuf

\* TcpStream::read(buffer): one poll of the ReadFuture.  The connection's
\* mutex is never held across a suspension point, so try_lock succeeds.
TcpStreamRead(key, n) ==
    /\ ~net_panicked
    /\ key \in streams
    /\ LET c == connections[key] IN
       IF c.data = <<>>
       THEN \* !guard.has_data(): register the waker, Poll::Pending
            /\ connections' = Insert(connections, key, [c EXCEPT !.waker = TRUE])
            /\ last_read' = Some([key |-> key, pending |-> TRUE, buf_len |-> n,
                                  before |-> c.data, n |-> 0, bytes |-> <<>>])
            /\ read_log' = read_log
       ELSE \E r \in {TcpConnection_read(c.data, n)} :
            /\ connections' = Insert(connections, key, [c EXCEPT !.data = r.rest])
            /\ last_read' = Some([key |-> key, pending |-> FALSE, buf_len |-> n,
                                  before |-> c.data, n |-> r.n, bytes |-> r.bytes])
            /\ read_log' = Insert(read_log, key, Get(read_log, key) \o r.bytes)
    /\ reader_woken' = reader_woken \ {key}
    /\ net_out' = None
    /\ UNCHANGED <<overflow_checks, arp_table, OPEN_PORTS, accept_queue, streams,
                   tx_log, written, accepted_log, net_panicked>>
    /\ UNCHANGED <<execVars, timerVars, nicVars, chanVars, syncVars, wireVars, drvVars, obsVars>>

\* u16 arithmetic wraps at 2^16
U16 == 2 ^ 16

\* TcpConnection::write(item), the body of the async fn: what the future
\* does when it is polled
TcpConnection_write(c, item) ==
    [conn |-> [c EXCEPT !.last_ipv4_id = (@ + 1) % U16,
                        !.snd_nxt = wrapping_add(@, Len(item))],
     emitted |-> Some([Tcp_zeroed EXCEPT
                         !.dst = c.quad[2], !.src = c.quad[4],
                         !.flags = {"PSH", "ACK"}, !.seq = c.snd_nxt,
                         !.ack = c.rcv_nxt, !.window = c.rcv_wnd,
                         !.hlen = 20, !.tail = item])]

\* TcpStream::write(item): `self.raw.lock().await.write(item);` creates the
\* future of TcpConnection::write and drops it at the end of the statement
\* without awaiting it.  A future does nothing until it is polled, so the
\* connection is unchanged and nothing is emitted.
TcpStream_write(c, item) ==
    LET future == TcpConnection_write(c, item)
        polled == FALSE
    IN  IF polled THEN future ELSE [conn |-> c, emitted |-> None]

\* items write() is called with
WriteItems == {<<7, 8, 9, 10>>}

TcpStreamWrite(key, item) ==
    /\ ~net_panicked
    /\ key \in streams
    /\ Len(Get(written, key)) < MaxWrites
    /\ LET r == TcpStream_write(connections[key], item) IN
       /\ connections' = Insert(connections, key, r.conn)
       /\ tx_log' = tx_log \o r.emitted
    /\ written' = Insert(written, key, Append(Get(written, key), item))
    /\ net_out' = None /\ last_read' = None
    /\ UNCHANGED <<overflow_checks, arp_table, OPEN_PORTS, accept_queue, streams,
                   accepted_log, read_log, reader_woken, net_panicked>>
    /\ UNCHANGED <<execVars, timerVars, nicVars, chanVars, syncVars, wireVars, drvVars, obsVars>>

NextNet ==
    \/ EthRxTcp
    \/ EthRxIpv4
    \/ EthRxArp
    \/ EthRxOther
    \/ TcpListenerBind(ListenPort)
    \/ \E l \in DOMAIN accept_queue : TcpListenerAccept(l)
    \/ \E ip \in {PeerIp, OtherIp}, local \in {LocalIp, OtherIp} :
          ArpResolve(ip, local)
    \/ \E k \in streams, n \in ReadSizes : TcpStreamRead(k, n)
    \/ \E k \in streams, item \in WriteItems : TcpStreamWrite(k, item)

SpecNet == InitNet /\ [][NextNet]_vars

(***************************************************************************)
(* Async Mutex: src/src/sync/mutex.rs                                      *)
(* The WakerSet is kept as the set of tasks that inserted a waker;         *)
(* notify_one takes one of them, notify_all takes all.  A task is pending  *)
(* in at most one of lock(), read() and write() at a time.                 *)
(***************************************************************************)
\* WakerSet::notify_one / notify_any: the sets a notification can leave
Notified(wakers) ==
    IF wakers = {} THEN {wakers} ELSE {wakers \ {w} : w \in wakers}

\* write_wakers.notify_any(): "notify a blocked writer if none were notified
\* already"; with a writer notified and not polled since, it may notify
\* another one or nobody
NotifiedAny(wakers) ==
    IF \E t \in lock_woken : lock_wait[t] = "write"
    THEN Notified(wakers) \cup {wakers}
    ELSE Notified(wakers)

\* the task calls a lock operation it is not already pending in
Starts(t) == lock_wait[t] = "none"

\* the executor polls task t, pending in the future `what`, or the task
\* starts that future
Polls(t, what) == lock_wait[t] \in {"none", what}

\* a try_lock that hands out a guard whatever the flag holds
Mutex_try_lock_NoCas(lock, cas_ok) ==
    [lock |-> TRUE, guard |-> TRUE]

\* Mutex::try_lock: compare_exchange_weak(false, true); cas_ok = FALSE is
\* the spurious failure the weak form allows
Mutex_try_lock(lock, cas_ok) ==
    IF lock = FALSE /\ cas_ok
    THEN [lock |-> TRUE, guard |-> TRUE]
    ELSE [lock |-> lock, guard |-> FALSE]

\* mutex.try_lock() called by task t
MutexTryLock(t, cas_ok) ==
    /\ Starts(t)
    /\ mutex_guards[t] < MaxGuards
    /\ LET r == Mutex_try_lock(mutex_lock, cas_ok) IN
         /\ mutex_lock' = r.lock
         /\ mutex_guards' = IF r.guard
                            THEN [mutex_guards EXCEPT ![t] = @ + 1]
                            ELSE mutex_guards
    /\ UNCHANGED <<mutex_wakers, rw_state, read_guards, write_guards,
                   read_wakers, write_wakers, lock_wait, lock_woken>>
    /\ UNCHANGED <<execVars, timerVars, nicVars, chanVars, netVars,
                   wireVars, drvVars, obsVars,
                   future_dropped>>

\* one poll of mutex.lock().await by task t: LockFuture::poll
MutexLockPoll(t, cas_ok) ==
    /\ Polls(t, "lock")
    /\ mutex_guards[t] < MaxGuards
    /\ lock_woken' = lock_woken \ {t}
    /\ LET r == Mutex_try_lock(mutex_lock, cas_ok) IN
         /\ mutex_lock' = r.lock
         /\ IF r.guard
            THEN /\ mutex_guards' = [mutex_guards EXCEPT ![t] = @ + 1]
                 /\ lock_wait' = [lock_wait EXCEPT ![t] = "none"]
                 /\ UNCHANGED mutex_wakers
            ELSE \* self.lock.wakers.insert(cx); Poll::Pending
                 /\ mutex_wakers' = mutex_wakers \cup {t}
                 /\ lock_wait' = [lock_wait EXCEPT ![t] = "lock"]
                 /\ UNCHANGED mutex_guards
    /\ UNCHANGED <<rw_state, read_guards, write_guards, read_wakers,
                   write_wakers>>
    /\ UNCHANGED <<execVars, timerVars, nicVars, chanVars, netVars,
                   wireVars, drvVars, obsVars,
                   future_dropped>>

\* Drop for MutexGuard: lock.store(false); wakers.notify_one()
MutexGuardDrop(t) ==
    /\ mutex_guards[t] > 0
    /\ mutex_guards' = [mutex_guards EXCEPT ![t] = @ - 1]
    /\ mutex_lock' = FALSE
    /\ mutex_wakers' \in Notified(mutex_wakers)
    /\ lock_woken' = lock_woken \cup (mutex_wakers \ mutex_wakers')
    /\ UNCHANGED <<rw_state, read_guards, write_guards, read_wakers,
                   write_wakers, lock_wait>>
    /\ UNCHANGED <<execVars, timerVars, nicVars, chanVars, netVars,
                   wireVars, drvVars, obsVars,
                   future_dropped>>

(***************************************************************************)
(* Async RwLock: src/src/sync/rwlock.rs                                    *)
(***************************************************************************)
WRITE_LOCK == 1

ONE_READ == 2

\* state & WRITE_LOCK != 0
WriteHeld(state) == state % 2 = 1

\* state & READ_COUNT_MASK
ReadCount(state) == state - (state % 2)

\* a try_write that only looks at the write bit
RwLock_try_write_BitOnly(state) ==
    IF ~WriteHeld(state)
    THEN [state |-> state + WRITE_LOCK, guard |-> TRUE]
    ELSE [state |-> state, guard |-> FALSE]

\* RwLock::try_write: compare_exchange(0, WRITE_LOCK)
RwLock_try_write(state) ==
    IF state = 0
    THEN [state |-> WRITE_LOCK, guard |-> TRUE]
    ELSE [state |-> state, guard |-> FALSE]

\* RwLock::try_read: load, test the write bit, then
\* compare_exchange_weak(state, state + ONE_READ); the exchange succeeds
\* only if the word still holds the loaded value and cas_ok.  The reader
\* overflow test (state > i64::MAX) is never true here: the word stays
\* below 2 * MaxLockTasks * MaxGuards + 2.
RwLock_try_read(state, cas_ok) ==
    IF WriteHeld(state)
    THEN [state |-> state, guard |-> FALSE]
    ELSE IF cas_ok
    THEN [state |-> state + ONE_READ, guard |-> TRUE]
    ELSE [state |-> state, guard |-> FALSE]

\* rwlock.try_read(), or one poll of rwlock.read().await, by task t
RwTryRead(t, cas_ok, is_poll) ==
    /\ IF is_poll THEN Polls(t, "read") ELSE Starts(t)
    /\ read_guards[t] < MaxGuards
    /\ LET r == RwLock_try_read(rw_state, cas_ok) IN
         /\ rw_state' = r.state
         /\ read_guards' = IF r.guard
                           THEN [read_guards EXCEPT ![t] = @ + 1]
                           ELSE read_guards
         \* ReadFuture::poll: read_wakers.insert(cx) on None
         /\ read_wakers' = IF is_poll /\ ~r.guard
                           THEN read_wakers \cup {t}
                           ELSE read_wakers
         /\ lock_wait' = IF ~is_poll THEN lock_wait
                         ELSE IF r.guard
                         THEN [lock_wait EXCEPT ![t] = "none"]
                         ELSE [lock_wait EXCEPT ![t] = "read"]
    /\ lock_woken' = IF is_poll THEN lock_woken \ {t} ELSE lock_woken
    /\ UNCHANGED <<mutex_lock, mutex_guards, mutex_wakers, write_guards,
                   write_wakers>>
    /\ UNCHANGED <<execVars, timerVars, nicVars, chanVars, netVars,
                   wireVars, drvVars, obsVars,
                   future_dropped>>

\* WakerSet::cancel(key): the entry the future inserted is removed
WakerSet_cancel(wakers, t) == wakers \ {t}

\* rwlock.try_write(), or one poll of rwlock.write().await, by task t.  A
\* WriteFuture that is ready is dropped by the await: its Drop cancels the
\* key of the entry it inserted while it was pending.
RwTryWrite(t, is_poll) ==
    /\ IF is_poll THEN Polls(t, "write") ELSE Starts(t)
    /\ write_guards[t] < MaxGuards
    /\ LET r == RwLock_try_write(rw_state) IN
         /\ rw_state' = r.state
         /\ write_guards' = IF r.guard
                            THEN [write_guards EXCEPT ![t] = @ + 1]
                            ELSE write_guards
         \* WriteFuture::poll: write_wakers.insert(cx) on None
         /\ write_wakers' = IF is_poll /\ ~r.guard
                            THEN write_wakers \cup {t}
                            ELSE IF is_poll /\ lock_wait[t] = "write"
                            THEN WakerSet_cancel(write_wakers, t)
                            ELSE write_wakers
         /\ lock_wait' = IF ~is_poll THEN lock_wait
                         ELSE IF r.guard
                         THEN [lock_wait EXCEPT ![t] = "none"]
                         ELSE [lock_wait EXCEPT ![t] = "write"]
    /\ lock_woken' = IF is_poll THEN lock_woken \ {t} ELSE lock_woken
    /\ UNCHANGED <<mutex_lock, mutex_guards, mutex_wakers, read_guards,
                   read_wakers>>
    /\ UNCHANGED <<execVars, timerVars, nicVars, chanVars, netVars,
                   wireVars, drvVars, obsVars,
                   future_dropped>>

\* Drop for RwLockReadGuard: fetch_sub(ONE_READ); the last reader notifies
\* a blocked writer
RwReadGuardDrop(t) ==
    /\ read_guards[t] > 0
    /\ read_guards' = [read_guards EXCEPT ![t] = @ - 1]
    /\ rw_state' = rw_state - ONE_READ
    /\ IF ReadCount(rw_state) = ONE_READ
       THEN write_wakers' \in NotifiedAny(write_wakers)
       ELSE UNCHANGED write_wakers
    /\ lock_woken' = lock_woken \cup (write_wakers \ write_wakers')
    /\ UNCHANGED <<mutex_lock, mutex_guards, mutex_wakers, write_guards,
                   read_wakers, lock_wait>>
    /\ UNCHANGED <<execVars, timerVars, nicVars, chanVars, netVars,
                   wireVars, drvVars, obsVars,
                   future_dropped>>

\* Drop for RwLockWriteGuard: state.store(0); notify all blocked readers,
\* or a blocked writer if there were none
RwWriteGuardDrop(t) ==
    /\ write_guards[t] > 0
    /\ write_guards' = [write_guards EXCEPT ![t] = @ - 1]
    /\ rw_state' = 0
    /\ read_wakers' = {}
    /\ IF read_wakers = {}
       THEN write_wakers' \in NotifiedAny(write_wakers)
       ELSE UNCHANGED write_wakers
    /\ lock_woken' = lock_woken \cup read_wakers
                        \cup (write_wakers \ write_wakers')
    /\ UNCHANGED <<mutex_lock, mutex_guards, mutex_wakers, read_guards,
                   lock_wait>>
    /\ UNCHANGED <<execVars, timerVars, nicVars, chanVars, netVars,
                   wireVars, drvVars, obsVars,
                   future_dropped>>

\* The future task t is pending in is dropped before it is ready (the loser
\* of a select).  Only WriteFuture has a Drop: write_wakers.cancel(key);
\* LockFuture and ReadFuture leave what they inserted in the set.
LockFutureDrop(t) ==
    /\ lock_wait[t] # "none"
    /\ lock_wait' = [lock_wait EXCEPT ![t] = "none"]
    /\ future_dropped' = TRUE
    /\ lock_woken' = lock_woken \ {t}
    /\ write_wakers' = IF lock_wait[t] = "write"
                       THEN WakerSet_cancel(write_wakers, t)
                       ELSE write_wakers
    /\ UNCHANGED <<mutex_lock, mutex_guards, mutex_wakers, rw_state,
                   read_guards, write_guards, read_wakers>>
    /\ UNCHANGED <<execVars, timerVars, nicVars, chanVars, netVars,
                   wireVars, drvVars, obsVars>>

NextSync ==
    \/ \E t \in LockTasks, ok \in BOOLEAN : MutexTryLock(t, ok)
    \/ \E t \in LockTasks, ok \in BOOLEAN : MutexLockPoll(t, ok)
    \/ \E t \in LockTasks : MutexGuardDrop(t)
    \/ \E t \in LockTasks, ok \in BOOLEAN, p \in BOOLEAN : RwTryRead(t, ok, p)
    \/ \E t \in LockTasks, p \in BOOLEAN : RwTryWrite(t, p)
    \/ \E t \in LockTasks : RwReadGuardDrop(t)
    \/ \E t \in LockTasks : RwWriteGuardDrop(t)
    \/ \E t \in LockTasks : LockFutureDrop(t)

SpecSync == Init /\ [][NextSync]_vars

(***************************************************************************)
(* The RwLock on its own, used by MaxWaiters tasks.  The kernel is built   *)
(* for x86-64, where compare_exchange_weak is a lock cmpxchg and fails     *)
(* only on a mismatch; no mismatch arises between the load and the         *)
(* exchange of try_read, as nothing runs in between on the one CPU.        *)
(***************************************************************************)
NextRw ==
    \/ \E t \in Waiters, p \in BOOLEAN : RwTryRead(t, TRUE, p)
    \/ \E t \in Waiters, p \in BOOLEAN : RwTryWrite(t, p)
    \/ \E t \in Waiters : RwReadGuardDrop(t)
    \/ \E t \in Waiters : RwWriteGuardDrop(t)
    \/ \E t \in Waiters : LockFutureDrop(t)

SpecRw == Init /\ [][NextRw]_vars

(***************************************************************************)
(* Futures that wait for the Mutex or for the write side of the RwLock and *)
(* are dropped while pending; read guards come from try_read.              *)
(***************************************************************************)
NextCancel ==
    \/ \E t \in Waiters : MutexLockPoll(t, TRUE)
    \/ \E t \in Waiters : MutexGuardDrop(t)
    \/ \E t \in Waiters : RwTryRead(t, TRUE, FALSE)
    \/ \E t \in Waiters : RwTryWrite(t, TRUE)
    \/ \E t \in Waiters : RwReadGuardDrop(t)
    \/ \E t \in Waiters : RwWriteGuardDrop(t)
    \/ \E t \in Waiters : LockFutureDrop(t)

SpecCancel == Init /\ [][NextCancel]_vars

\* the executor polls a task that has been woken (see C1)
RwPollWoken(t) ==
    /\ t \in lock_woken
    /\ \/ RwTryRead(t, TRUE, TRUE)
       \/ RwTryWrite(t, TRUE)

\* Every guard is dropped in the end, and every woken task is polled.
SpecRwFair ==
    /\ SpecRw
    /\ \A t \in Waiters :
          /\ WF_vars(RwReadGuardDrop(t))
          /\ WF_vars(RwWriteGuardDrop(t))
          /\ WF_vars(RwPollWoken(t))

(***************************************************************************)
(* Packet views: src/src/net/wire.  A packet is its byte buffer (a         *)
(* sequence of bytes, index 1 being byte 0 of the buffer).                 *)
(***************************************************************************)
ETH2_MIN_VALID_SIZE == 14

PacketKinds == {"Ether2Frame", "ArpPacket", "Ipv4", "Icmp", "Tcp"}

\* the length below which from_bytes of a packet type returns Err(())
MinValidLen(kind) ==
    CASE kind = "Ether2Frame" -> ETH2_MIN_VALID_SIZE
      [] kind = "ArpPacket" -> MIN_ARP_LEN
      [] kind = "Ipv4" -> IPV4_MIN_VALID_LENGTH
      [] kind = "Icmp" -> ICMP_ECHO_MIN_SIZE
      [] kind = "Tcp" -> TCP_MIN_LEN

\* IPV4_CHECKSUM_OFFSET = 10..=11 and IPV4_HEADER_OFFSET = 0..=19, as
\* indexes of a sequence
IPV4_CHECKSUM_LO == 11
IPV4_CHECKSUM_HI == 12
IPV4_HEADER_LEN == 20

\* Ether2Frame / ArpPacket / Icmp / Tcp ::from_bytes: the length test, then
\* Ok(Self(bytes))
Plain_from_bytes(kind, bytes) ==
    IF Len(bytes) < MinValidLen(kind) THEN None ELSE Some(bytes)

\* Ipv4::from_bytes: the length test, then the checksum field is
\* overwritten with [0, 0]
Ipv4_from_bytes(bytes) ==
    IF Len(bytes) < IPV4_MIN_VALID_LENGTH THEN None
    ELSE Some([bytes EXCEPT ![IPV4_CHECKSUM_LO] = 0, ![IPV4_CHECKSUM_HI] = 0])

\* <T as Packet>::from_bytes(bytes).ok()
Packet_from_bytes(kind, bytes) ==
    IF kind = "Ipv4" THEN Ipv4_from_bytes(bytes)
    ELSE Plain_from_bytes(kind, bytes)

\* <T as Packet>::into_bytes(self): self.0
Packet_into_bytes(pkt) == pkt

\* ipv4::checksum(data): the sum, in a u32, of the little-endian 16-bit
\* words of data, plus the odd byte left over
RECURSIVE checksum(_)
checksum(data) ==
    IF Len(data) = 0 THEN 0
    ELSE IF Len(data) = 1 THEN data[1]
    ELSE data[1] + 256 * data[2] + checksum(SubSeq(data, 3, Len(data)))

\* while sum >> 16 != 0 { sum = (sum & 0xffff) + (sum >> 16) }
RECURSIVE fold16(_)
fold16(sum) ==
    IF sum \div U16 # 0 THEN fold16((sum % U16) + (sum \div U16)) ELSE sum

\* ipv4::u32_to_u16(sum): fold, then (!sum & 0xffff) as u16
u32_to_u16(sum) == (U16 - 1) - fold16(sum)

\* Ipv4::set_checksum: the checksum of bytes 0..=19 as they are, stored with
\* to_ne_bytes (the kernel's only target, x86_64, is little-endian)
Ipv4_set_checksum(pkt) ==
    LET csum == u32_to_u16(checksum(SubSeq(pkt, 1, IPV4_HEADER_LEN)))
    IN  [pkt EXCEPT ![IPV4_CHECKSUM_LO] = csum % 256,
                    ![IPV4_CHECKSUM_HI] = csum \div 256]

\* Byte patterns of the buffers: all zero, all 0xff, and a ramp
Fill(pattern, i) ==
    CASE pattern = "zero" -> 0
      [] pattern = "ones" -> 255
      [] pattern = "ramp" -> (i * 37) % 256

\* a buffer of length len with bytes 10 and 11 set to c
Buffer(len, pattern, c) ==
    [i \in 1..len |->
        IF i = IPV4_CHECKSUM_LO /\ i <= len THEN c[1]
        ELSE IF i = IPV4_CHECKSUM_HI /\ i <= len THEN c[2]
        ELSE Fill(pattern, i)]

\* the buffers handed to from_bytes of a packet type: one byte short of the
\* minimum, the minimum, and MaxExtra bytes more
Buffers(kind) ==
    {Buffer(len, pattern, c) :
        len \in {MinValidLen(kind) - 1, MinValidLen(kind),
                 MinValidLen(kind) + MaxExtra},
        pattern \in {"zero", "ones", "ramp"},
        c \in {<<0, 0>>, <<171, 205>>}}

\* a buffer arrives and is about to be parsed as a packet of some type
InitWire ==
    /\ InitExec
    /\ InitChan
    /\ InitNetState
    /\ InitSync
    /\ InitDrv
    /\ overflow_checks = TRUE
    /\ wire_kind \in PacketKinds
    /\ wire_in \in Buffers(wire_kind)
    /\ wire_pkt = None
    /\ wire_out = None
    /\ wire_sets = 0

\* T::from_bytes(bytes).ok()
WireFromBytes ==
    /\ wire_pkt = None
    /\ wire_out = None
    /\ Packet_from_bytes(wire_kind, wire_in) # None
    /\ wire_pkt' = Packet_from_bytes(wire_kind, wire_in)
    /\ UNCHANGED <<wire_kind, wire_in, wire_out, wire_sets>>
    /\ UNCHANGED <<execVars, timerVars, nicVars, chanVars, netVars, syncVars,
                 drvVars, obsVars>>

\* packet.set_checksum() on an Ipv4
WireSetChecksum ==
    /\ wire_kind = "Ipv4"
    /\ wire_pkt # None
    /\ wire_sets < MaxSetChecksum
    /\ wire_pkt' = Some(Ipv4_set_checksum(wire_pkt[1]))
    /\ wire_sets' = wire_sets + 1
    /\ UNCHANGED <<wire_kind, wire_in, wire_out>>
    /\ UNCHANGED <<execVars, timerVars, nicVars, chanVars, netVars, syncVars,
                 drvVars, obsVars>>

\* packet.into_bytes(): the packet is consumed
WireIntoBytes ==
    /\ wire_pkt # None
    /\ wire_out' = Some(Packet_into_bytes(wire_pkt[1]))
    /\ wire_pkt' = None
    /\ UNCHANGED <<wire_kind, wire_in, wire_sets>>
    /\ UNCHANGED <<execVars, timerVars, nicVars, chanVars, netVars, syncVars,
                 drvVars, obsVars>>

NextWire ==
    \/ WireFromBytes
    \/ WireSetChecksum
    \/ WireIntoBytes

SpecWire == InitWire /\ [][NextWire]_vars

\* ---------------------------------------------------------------------
\* RTL8139 driver: the state lock (a spin::RwLock), the interrupt handler
\* and the transmit sink (src/src/driver/rtl8139.rs, src/src/arch/pci.rs)
\* ---------------------------------------------------------------------

notDrv ==
    <<execVars, timerVars, nicVars, chanVars, netVars, syncVars, wireVars,
      obsVars>>

\* bit 10 of the PCI command word: the card's INTx line is disabled
IntDisabled(w) == (w \div PCI_INT_DISABLE) % 2 = 1

\* Device::set_enable_int: original_conf & !(1 << 10)
set_enable_int(w) == IF IntDisabled(w) THEN w - PCI_INT_DISABLE ELSE w

\* Device::set_disable_int: original_conf | (1 << 10)
set_disable_int(w) == IF IntDisabled(w) THEN w ELSE w + PCI_INT_DISABLE

\* the card can raise interrupt 43
CardInterrupts == imr_unmasked /\ ~IntDisabled(pci_cmd)

\* spin::RwLock::try_write succeeds only on a lock nobody holds
try_write(lock) == lock = "free"

\* the guards task context keeps alive across an instruction boundary
TaskGuards == {"init", "new"}

\* an interrupt handler that never returns: the interrupted context and
\* every other handler stay suspended
IsrStuck == isr_spin \/ heap_spin

\* the task context is running and is not inside the allocator
TaskRuns == ~IsrStuck /\ heap_lock = "free"

\* RTL8139::init, its last statement: the interrupt mask register is written
\* while the write guard `inner` is still alive
DrvInitUnmask ==
    /\ drv_pc = "init"
    /\ TaskRuns
    /\ imr_unmasked' = TRUE
    /\ drv_pc' = "init_end"
    /\ UNCHANGED <<state_lock, pci_cmd, isr_spin, isr_runs, tx_buffer,
                   tx_cursor, tx_desc, flush_in, flush_ret, tx_wakers, heap_lock, heap_spin>>
    /\ UNCHANGED notDrv

\* RTL8139::init returns: `inner` is dropped
DrvInitReturn ==
    /\ drv_pc = "init_end"
    /\ TaskRuns
    /\ state_lock' = "free"
    /\ drv_pc' = "booted"
    /\ UNCHANGED <<pci_cmd, imr_unmasked, isr_spin, isr_runs, tx_buffer,
                   tx_cursor, tx_desc, flush_in, flush_ret, tx_wakers, heap_lock, heap_spin>>
    /\ UNCHANGED notDrv

\* TxSink::new: RTL8139_STATE.read() gives a guard that lives while
\* device.clone() runs; the card's interrupts are not disabled
TxSinkNew ==
    /\ drv_pc = "booted"
    /\ TaskRuns
    /\ state_lock = "free"
    /\ state_lock' = "new"
    /\ drv_pc' = "new"
    /\ UNCHANGED <<pci_cmd, imr_unmasked, isr_spin, isr_runs, tx_buffer,
                   tx_cursor, tx_desc, flush_in, flush_ret, tx_wakers, heap_lock, heap_spin>>
    /\ UNCHANGED notDrv

\* TxSink::new returns: the temporary read guard is dropped
TxSinkNewReturn ==
    /\ drv_pc = "new"
    /\ TaskRuns
    /\ state_lock' = "free"
    /\ drv_pc' = "sink"
    /\ UNCHANGED <<pci_cmd, imr_unmasked, isr_spin, isr_runs, tx_buffer,
                   tx_cursor, tx_desc, flush_in, flush_ret, tx_wakers, heap_lock, heap_spin>>
    /\ UNCHANGED notDrv

\* TxSink::start_send: self.buffer.push(item)
start_send(item) ==
    /\ drv_pc = "sink"
    /\ TaskRuns
    /\ Len(tx_buffer) < MaxTxBuf
    /\ tx_buffer' = Append(tx_buffer, item)
    /\ UNCHANGED <<state_lock, pci_cmd, imr_unmasked, isr_spin, isr_runs,
                   drv_pc, tx_cursor, tx_desc, flush_in, flush_ret, tx_wakers, heap_lock, heap_spin>>
    /\ UNCHANGED notDrv

\* Rtl8139State::write: the frame goes to descriptor tx_cursor, the loop
\* waits for the card to set bit 0x8000, then tx_cursor = (cursor + 1) % 4
Rtl8139State_write(st, item) ==
    [cursor |-> (st.cursor + 1) % TX_SLOTS,
     desc |-> Append(st.desc, <<st.cursor, item>>)]

\* for item in self.buffer.drain(..) { lock.write(item) }
RECURSIVE DrainWrite(_, _)
DrainWrite(buffer, st) ==
    IF buffer = <<>> THEN st
    ELSE DrainWrite(Tail(buffer), Rtl8139State_write(st, Head(buffer)))

\* the return path of poll_flush after the guard is dropped
FlushReadyCmd(w) == set_enable_int(w)

\* TxSink::poll_flush(_cx): set_disable_int, then try_write; on a held lock
\* `return Poll::Pending` at once (the Context is not used); else the buffer
\* is drained into the descriptors, the guard is dropped and set_enable_int
\* runs
poll_flush ==
    /\ drv_pc = "sink"
    /\ TaskRuns
    /\ flush_in' = <<tx_buffer, tx_cursor>>
    /\ LET cmd == set_disable_int(pci_cmd)
           st == DrainWrite(tx_buffer, [cursor |-> tx_cursor, desc |-> <<>>])
       IN  IF try_write(state_lock)
           THEN /\ tx_buffer' = <<>>
                /\ tx_cursor' = st.cursor
                /\ tx_desc' = st.desc
                /\ pci_cmd' = FlushReadyCmd(cmd)
                /\ flush_ret' = "ready"
           ELSE /\ pci_cmd' = cmd
                /\ flush_ret' = "pending"
                /\ UNCHANGED <<tx_buffer, tx_cursor, tx_desc>>
    /\ UNCHANGED <<state_lock, imr_unmasked, isr_spin, isr_runs, drv_pc,
                   tx_wakers, heap_lock, heap_spin>>
    /\ UNCHANGED notDrv

\* how handle_int takes the state lock: RwLock::write() spins until the
\* lock is free
HandlerGetsLock(lock) == lock = "free"

\* Rtl8139State::rok: buffer[4..length - 4].try_into() copies the frame
\* with data[14..].to_vec() (src/src/net/frames/eth2.rs 48-58), an
\* allocation through globals::ALLOCATOR, whose lock is a spin lock
RokGetsHeap(lock) == lock = "free"

\* RTL8139::handle_int: `RTL8139_STATE.write()` first; with the lock held
\* it spins inside write() and the interrupted context does not run. With
\* the lock free and RX_OK set it calls rok(), which allocates the frame:
\* it spins on the allocator's lock when the interrupted task holds it.
\* Else the handler runs to notify_eoi(43) and drops the guard.
handle_int(rx_ok) ==
    /\ CardInterrupts
    /\ ~IsrStuck
    /\ IF ~HandlerGetsLock(state_lock)
       THEN isr_spin' = TRUE /\ UNCHANGED <<isr_runs, heap_spin>>
       ELSE IF rx_ok /\ ~RokGetsHeap(heap_lock)
       THEN heap_spin' = TRUE /\ UNCHANGED <<isr_runs, isr_spin>>
       ELSE isr_runs' = TRUE /\ UNCHANGED <<isr_spin, heap_spin>>
    /\ UNCHANGED <<state_lock, pci_cmd, imr_unmasked, drv_pc, tx_buffer,
                   tx_cursor, tx_desc, flush_in, flush_ret, tx_wakers,
                   heap_lock>>
    /\ UNCHANGED notDrv

\* Task context enters the global allocator (Box::pin in Task::new, the
\* Vec of a frame or of a TxSink buffer): GlobalAlloc::alloc takes the
\* allocator's spin lock, with interrupts enabled
TaskAllocEnter ==
    /\ ~IsrStuck
    /\ heap_lock = "free"
    /\ heap_lock' = "task"
    /\ UNCHANGED <<state_lock, pci_cmd, imr_unmasked, isr_spin, isr_runs,
                   drv_pc, tx_buffer, tx_cursor, tx_desc, flush_in,
                   flush_ret, tx_wakers, heap_spin>>
    /\ UNCHANGED notDrv

\* the allocation returns and the allocator's lock is released
TaskAllocLeave ==
    /\ ~IsrStuck
    /\ heap_lock = "task"
    /\ heap_lock' = "free"
    /\ UNCHANGED <<state_lock, pci_cmd, imr_unmasked, isr_spin, isr_runs,
                   drv_pc, tx_buffer, tx_cursor, tx_desc, flush_in,
                   flush_ret, tx_wakers, heap_spin>>
    /\ UNCHANGED notDrv

\* Another thread of control holds a guard of the state lock: the timer
\* interrupt ends in schedule() (src/src/arch/interrupts.rs 116-122), which
\* may switch away from a thread that is inside TxSink::new (line 321)
\* while its read guard is alive.
OtherGuardTaken ==
    /\ drv_pc = "sink"
    /\ state_lock = "free"
    /\ state_lock' = "other"
    /\ UNCHANGED <<pci_cmd, imr_unmasked, isr_spin, isr_runs, drv_pc,
                   tx_buffer, tx_cursor, tx_desc, flush_in, flush_ret,
                   tx_wakers, heap_lock, heap_spin>>
    /\ UNCHANGED notDrv

\* that thread runs again and drops its guard
OtherGuardDropped ==
    /\ state_lock = "other"
    /\ ~IsrStuck
    /\ state_lock' = "free"
    /\ UNCHANGED <<pci_cmd, imr_unmasked, isr_spin, isr_runs, drv_pc,
                   tx_buffer, tx_cursor, tx_desc, flush_in, flush_ret,
                   tx_wakers, heap_lock, heap_spin>>
    /\ UNCHANGED notDrv

NextDrv ==
    \/ DrvInitUnmask
    \/ DrvInitReturn
    \/ TxSinkNew
    \/ TxSinkNewReturn
    \/ \E item \in TxFrames : start_send(item)
    \/ poll_flush
    \/ \E rx_ok \in BOOLEAN : handle_int(rx_ok)
    \/ TaskAllocEnter
    \/ TaskAllocLeave
    \/ OtherGuardTaken
    \/ OtherGuardDropped

SpecDrv == Init /\ [][NextDrv]_vars

(***************************************************************************)
(* Claims                                                                  *)
(***************************************************************************)
TaskIds == 0..(MaxTasks - 1)

InWheel(t) == \E d \in DOMAIN TIMER_QUEUE : TIMER_QUEUE[d] = t

SleepPending(t) ==
    /\ t \in DOMAIN tasks
    /\ tasks[t].kind = "sleep"
    /\ tasks[t].started

(***************************************************************************)
(* C2: every task pending in a Sleep still has its waker in the timer      *)
(* wheel or has been woken (its id is on the run queue): no waker          *)
(* registered in the wheel is discarded without being woken, also when     *)
(* several Sleeps have the same deadline.                                  *)
(***************************************************************************)
C2_NoSleepWakerLost ==
    \A t \in DOMAIN tasks :
        SleepPending(t) => InWheel(t) \/ t \in Range(task_queue)

Count(q, t) == Cardinality({i \in 1..Len(q) : q[i] = t})

InSpawnQueue(t) == \E i \in 1..Len(SPAWN_QUEUE) : SPAWN_QUEUE[i].id = t

Completed(t) ==
    /\ t \in DOMAIN spawned
    /\ t \notin DOMAIN tasks
    /\ ~InSpawnQueue(t)

(***************************************************************************)
(* C10: a task that wakes itself and returns Pending N times and then      *)
(* completes is polled exactly N + 1 times: while it lives it has been     *)
(* polled once per iteration done and is queued exactly once, the executor *)
(* never halts before it has completed, and once it has completed its poll *)
(* count is N + 1.                                                         *)
(***************************************************************************)
C10_YielderPolledNPlus1 ==
    \A t \in DOMAIN spawned :
        spawned[t].kind = "yield" =>
            /\ Completed(t) => polls[t] = spawned[t].left + 1
            /\ t \in DOMAIN tasks =>
                  /\ polls[t] = spawned[t].left - tasks[t].left
                  /\ Count(task_queue, t) = 1
            /\ InSpawnQueue(t) => polls[t] = 0
            /\ pc = "halted" => Completed(t)

\* a task with N = MaxLoops has run to completion
C10_Witness ==
    \E t \in DOMAIN spawned :
        /\ spawned[t].kind = "yield"
        /\ spawned[t].left = MaxLoops
        /\ Completed(t)
        /\ polls[t] = MaxLoops + 1

(***************************************************************************)
(* C3: once the last sender has been dropped the channel is closed, the    *)
(* messages still queued are exactly the sent ones not yet received, and a *)
(* receiver that is pending has been woken; it does not stay pending with  *)
(* no sender left and no wake outstanding.                                 *)
(***************************************************************************)
C3_LastDropClosesAndWakes ==
    tx_count = 0 =>
        /\ is_closed(semaphore)
        /\ received \o chan_list = sent
        /\ rx_state = "pending" => rx_woken

(***************************************************************************)
(* C4: the values returned by successive recv() calls, followed by the     *)
(* values still queued, are the values of the successful send() calls in   *)
(* send order: nothing is lost, duplicated or reordered.                   *)
(***************************************************************************)
C4_ChannelFifo == received \o chan_list = sent

\* MaxMsgs messages, not all equal, were sent and all of them received
C4_Witness ==
    /\ Len(received) = MaxMsgs
    /\ \E i \in 1..Len(received) : received[i] # received[1]

(***************************************************************************)
(* Claims about the network stack (checked under SpecNet).                 *)
(***************************************************************************)
\* the reply IpLayer::handle_packet wraps around a TCP segment for the peer
TcpReply(seg) ==
    Some([dst |-> PeerMac, src |-> LocalMac, dtype |-> "IPv4",
          data |-> [dtype |-> "IPv4", proto |-> "TCP", sip |-> LocalIp,
                    dip |-> PeerIp, l4 |-> seg]])

\* C5: TcpStream::write(bytes) on an ESTABLISHED connection hands exactly
\* one PSH,ACK segment to the IPv4 egress, carrying the bytes with
\* SEQ = SND.NXT before the call and ACK = RCV.NXT, and leaves SND.NXT
\* advanced by the payload length.
C5_WriteEmitsPshAck ==
    [][\A k \in DOMAIN connections : \A item \in WriteItems :
         (connections[k].state = "ESTABLISHED" /\ TcpStreamWrite(k, item)) =>
            /\ Len(tx_log') = Len(tx_log) + 1
            /\ tx_log'[Len(tx_log')].flags = {"PSH", "ACK"}
            /\ tx_log'[Len(tx_log')].seq = connections[k].snd_nxt
            /\ tx_log'[Len(tx_log')].ack = connections[k].rcv_nxt
            /\ tx_log'[Len(tx_log')].tail = item
            /\ connections'[k].snd_nxt =
                 wrapping_add(connections[k].snd_nxt, Len(item))]_vars

\* C6: for any peer ISN X, a SYN on a new 4-tuple to a listening port (the
\* peer's address being resolvable) creates a connection in SYN-RECEIVED
\* with RCV.IRS = X, RCV.NXT = X+1, SND.ISS = 0, SND.NXT = 1, is answered
\* by one SYN,ACK with SEQ = 0 and ACK = X+1, and delivers one stream for
\* the 4-tuple to the listener; the peer's ACK (SEQ = X+1, ACK = 1) then
\* moves the connection to ESTABLISHED.
C6_HandshakeAnyIsn ==
    [][/\ \A x \in PeerIsns :
            (/\ TheKey \notin DOMAIN connections
             /\ ListenPort \in DOMAIN OPEN_PORTS
             /\ resolve_ip(PeerIp)
             /\ NetworkRx(TcpFrame(Segment(ListenPort, {"SYN"}, x, 0, 20, <<>>)),
                          "wildcard"))
            => /\ ~net_panicked'
               /\ TheKey \in DOMAIN connections'
               /\ connections'[TheKey].state = "SYN_RECEIVED"
               /\ connections'[TheKey].rcv_irs = x
               /\ connections'[TheKey].rcv_nxt = wrapping_add(x, 1)
               /\ connections'[TheKey].snd_iss = 0
               /\ connections'[TheKey].snd_nxt = 1
               /\ net_out' = TcpReply([Tcp_zeroed EXCEPT
                                         !.src = ListenPort, !.dst = PeerPort,
                                         !.flags = {"SYN", "ACK"}, !.seq = 0,
                                         !.ack = wrapping_add(x, 1), !.hlen = 20])
               /\ accept_queue'[OPEN_PORTS[ListenPort]] =
                    Append(accept_queue[OPEN_PORTS[ListenPort]], TheKey)
       /\ (/\ TheKey \in DOMAIN connections
           /\ connections[TheKey].state = "SYN_RECEIVED"
           /\ NetworkRx(TcpFrame(Segment(ListenPort, {"ACK"},
                                         connections[TheKey].rcv_nxt, 1, 20, <<>>)),
                        "wildcard"))
          => connections'[TheKey].state = "ESTABLISHED"]_vars

\* C7: on an ESTABLISHED connection every segment with a non-empty payload
\* and SEG.SEQ = RCV.NXT, with or without PSH, appends its payload to the
\* receive buffer, advances RCV.NXT by its length, wakes a registered
\* reader, and is answered by one ACK with SEQ = SND.NXT and
\* ACK = the new RCV.NXT.
C7_InOrderDataAccepted ==
    [][\A f \in {{"ACK"}, {"PSH", "ACK"}} : \A p \in Payloads \ {<<>>} :
         (/\ TheKey \in DOMAIN connections
          /\ connections[TheKey].state = "ESTABLISHED"
          /\ NetworkRx(TcpFrame(Segment(ListenPort, f,
                                        connections[TheKey].rcv_nxt, 1, 20, p)),
                       "wildcard"))
         => /\ connections'[TheKey].data = connections[TheKey].data \o p
            /\ connections'[TheKey].rcv_nxt =
                 wrapping_add(connections[TheKey].rcv_nxt, Len(p))
            /\ connections[TheKey].waker =>
                 TheKey \in reader_woken' /\ ~connections'[TheKey].waker
            /\ net_out' = TcpReply([Tcp_zeroed EXCEPT
                                      !.src = ListenPort, !.dst = PeerPort,
                                      !.flags = {"ACK"}, !.hlen = 20,
                                      !.seq = connections'[TheKey].snd_nxt,
                                      !.ack = connections'[TheKey].rcv_nxt,
                                      !.window = connections'[TheKey].rcv_wnd])]_vars

\* C8: no frame received from the network makes the stack panic or abort.
C8_NoPanicOnIngress == ~net_panicked

\* C9: TcpStream::read(buf) on a non-empty receive buffer returns
\* k = min(buf.len(), buffered), hands out exactly the first k buffered bytes
\* and removes them, so that everything read so far followed by what is
\* still buffered is the accepted payloads in arrival order; on an empty
\* buffer it registers the reader's waker and returns pending.
C9_ReadDrainsPrefix ==
    /\ \A k \in DOMAIN connections :
         Get(read_log, k) \o connections[k].data = Get(accepted_log, k)
    /\ last_read # None =>
         LET r == last_read[1] IN
         IF r.before = <<>>
         THEN r.pending /\ connections[r.key].waker
         ELSE /\ ~r.pending
              /\ r.n = Min({r.buf_len, Len(r.before)})
              /\ r.bytes = SubSeq(r.before, 1, r.n)
              /\ connections[r.key].data = SubSeq(r.before, r.n + 1, Len(r.before))

\* a read into a buffer shorter than what is buffered, after an earlier read
C9_Witness ==
    /\ last_read # None
    /\ ~last_read[1].pending
    /\ last_read[1].n = last_read[1].buf_len
    /\ last_read[1].n > 0
    /\ last_read[1].n < Len(last_read[1].before)
    /\ Len(Get(read_log, last_read[1].key)) > last_read[1].n
    /\ Get(read_log, last_read[1].key) \o connections[last_read[1].key].data
         = <<1, 2, 3>>

(***************************************************************************)
(* Claims about timers (checked under Spec).                               *)
(***************************************************************************)
\* the deadline of the Sleep a task is in, or is about to create
Deadline(f) == IF f.started THEN f.yield_at ELSE get_milis + f.period

SleepStart(f) == f.yield_at - f.period

(***************************************************************************)
(* C11: a Sleep never completes early: a poll of a sleeping task returns   *)
(* ready only if get_milis() is at or past the Sleep's deadline; and of    *)
(* two tasks that started sleeping at the same time, the one with the      *)
(* shorter period does not resume after the one with the longer period     *)
(* has completed.                                                          *)
(***************************************************************************)
C11_SleepNeverEarly ==
    [][\A t \in DOMAIN tasks :
          (tasks[t].kind = "sleep" /\ t \notin DOMAIN tasks') =>
              /\ get_milis >= Deadline(tasks[t])
              /\ \A u \in DOMAIN tasks :
                    ( /\ tasks[u].kind = "sleep"
                      /\ tasks[u].started
                      /\ tasks[t].started
                      /\ SleepStart(tasks[u]) = SleepStart(tasks[t])
                      /\ tasks[u].period < tasks[t].period )
                    => \* u can not be polled again: nothing holds its waker
                       /\ u \notin Range(task_queue')
                       /\ \A d \in DOMAIN TIMER_QUEUE' : TIMER_QUEUE'[d] # u
      ]_vars

\* a 50 ms and a 100 ms sleeper have both gone through Pending and completed
C11_Witness ==
    \E a, b \in DOMAIN spawned :
        /\ spawned[a] = Future("sleep", 0, 50)
        /\ spawned[b] = Future("sleep", 0, 100)
        /\ Completed(a) /\ Completed(b)
        /\ polls[a] = 2 /\ polls[b] = 2

(***************************************************************************)
(* C12: get_milis() is the elapsed time in milliseconds: with k ticks      *)
(* elapsed at TICK_FREQ Hz it equals floor(k * 1000 / TICK_FREQ).          *)
(***************************************************************************)
C12_MillisIsFloor == get_milis = (TICK * 1000) \div TICK_FREQ

(***************************************************************************)
(* C20: Interval does not drift: the deadline of the k-th tick is the      *)
(* deadline of the first tick plus (k - 1) * period.                       *)
(***************************************************************************)
C20_IntervalNoDrift ==
    \A t \in DOMAIN tasks :
        (tasks[t].kind = "interval" /\ tasks[t].started) =>
            tasks[t].yield_at =
                tasks[t].first
                + (spawned[t].left - tasks[t].left) * tasks[t].period

(***************************************************************************)
(* Claims about the async locks (checked under SpecSync).                  *)
(***************************************************************************)
RECURSIVE SumOver(_, _)
SumOver(f, D) ==
    IF D = {} THEN 0
    ELSE LET x == CHOOSE y \in D : TRUE IN f[x] + SumOver(f, D \ {x})

\* number of live guards counted in f
Live(f) == SumOver(f, DOMAIN f)

(***************************************************************************)
(* C13: at most one MutexGuard of the Mutex exists at any time, for every  *)
(* interleaving of lock(), try_lock() and guard drops by the tasks; the    *)
(* lock flag is true exactly while a guard exists.                         *)
(***************************************************************************)
C13_MutexOneGuard ==
    /\ Live(mutex_guards) <= 1
    /\ mutex_lock = (Live(mutex_guards) = 1)

\* one task holds the guard and another one failed to lock and waits
C13_Witness ==
    \E t, u \in LockTasks :
        /\ t # u
        /\ mutex_guards[t] = 1
        /\ u \in mutex_wakers

(***************************************************************************)
(* C14: the RwLock state word equals 2 * (live read guards) + (1 if a      *)
(* write guard is live, else 0); a write guard never coexists with another *)
(* guard; try_read succeeds only when bit 0 is clear and try_write only    *)
(* when the whole word is zero.                                            *)
(***************************************************************************)
C14_RwLockStateWord ==
    /\ [](/\ Live(write_guards) <= 1
          /\ rw_state = 2 * Live(read_guards) + Live(write_guards)
          /\ Live(write_guards) = 1 => Live(read_guards) = 0)
    /\ [][/\ Live(read_guards)' > Live(read_guards) => rw_state % 2 = 0
          /\ Live(write_guards)' > Live(write_guards) => rw_state = 0]_vars

\* two read guards are live and a writer has been turned away
C14_Witness ==
    /\ Live(read_guards) = 2
    /\ write_wakers # {}

(***************************************************************************)
(* Claims about sockets, ARP and ICMP (checked under SpecNet).             *)
(***************************************************************************)
\* the listener created first
FirstListener == Min(DOMAIN accept_queue)

(***************************************************************************)
(* C15: TcpListener::bind(port) on a port that is already bound returns an *)
(* error and leaves the listener registry unchanged: the port still maps   *)
(* to the first listener's sender, and streams accepted on that port are   *)
(* delivered to the first listener only.                                   *)
(***************************************************************************)
C15_DoubleBindRejected ==
    /\ [][(ListenPort \in DOMAIN OPEN_PORTS /\ TcpListenerBind(ListenPort)) =>
            /\ net_out' = BindResult(ListenPort, FALSE)
            /\ OPEN_PORTS' = OPEN_PORTS
            /\ accept_queue' = accept_queue]_vars
    /\ [](/\ ListenPort \in DOMAIN OPEN_PORTS =>
                OPEN_PORTS[ListenPort] = FirstListener
          /\ \A l \in DOMAIN accept_queue :
                l # FirstListener => accept_queue[l] = <<>>)

\* a second bind of the port has just failed while the first listener has
\* a stream waiting to be accepted
C15_Witness ==
    /\ net_out = BindResult(ListenPort, FALSE)
    /\ ListenPort \in DOMAIN OPEN_PORTS
    /\ accept_queue[OPEN_PORTS[ListenPort]] # <<>>

\* states in which both ends have seen each other's SYN
Synchronized ==
    {"ESTABLISHED", "FIN_WAIT_1", "FIN_WAIT_2", "CLOSE_WAIT", "CLOSING",
     "LAST_ACK", "TIME_WAIT"}

(***************************************************************************)
(* C16: a segment with SYN set, with or without ACK, that arrives on an    *)
(* existing connection in a synchronized state is answered by exactly one  *)
(* RST segment and moves the connection to CLOSED.                         *)
(***************************************************************************)
C16_SynOnConnectionResets ==
    [][\A f \in {{"SYN"}, {"SYN", "ACK"}} : \A sq \in SeqChoices :
         (/\ TheKey \in DOMAIN connections
          /\ connections[TheKey].state \in Synchronized
          /\ NetworkRx(TcpFrame(Segment(ListenPort, f, sq,
                                        IF "ACK" \in f THEN 1 ELSE 0,
                                        20, <<>>)),
                       "wildcard"))
         => /\ connections'[TheKey].state = "CLOSE"
            /\ net_out' # None
            /\ net_out'[1].data.l4[1].flags = {"RST"}]_vars

\* the ICMP packet of type t the IPv4 layer hands to the ICMP layer
IcmpFrame(t) ==
    IpPacket(IPV4_DATA_OFFSET + ICMP_ECHO_MIN_SIZE, LocalIp, "ICMP",
             Some([type |-> t]))

(***************************************************************************)
(* C17: an ICMP Echo request addressed to a locally bound IP is answered   *)
(* with exactly one ICMP EchoReply, wrapped in an IPv4 packet with source  *)
(* and destination addresses swapped; ICMP packets of any other type       *)
(* produce no reply.                                                       *)
(***************************************************************************)
C17_EchoAnswered ==
    [][/\ NetworkRx(IcmpFrame("Echo"), "wildcard") =>
            /\ ~net_panicked'
            /\ net_out' # None
            /\ net_out'[1].data.proto = "ICMP"
            /\ net_out'[1].data.sip = LocalIp
            /\ net_out'[1].data.dip = PeerIp
            /\ net_out'[1].data.l4 = [type |-> "EchoReply"]
       /\ NetworkRx(IcmpFrame("EchoReply"), "wildcard") => net_out' = None
      ]_vars

\* a well-formed ARP packet of the peer asking for tip, in a frame sent by src
ArpRequest(src, tip) ==
    [dtype |-> "ARP", src |-> src, len |-> MIN_ARP_LEN + 1,
     smac |-> PeerMac, sip |-> PeerIp, tmac |-> "00:00:00:00:00:00",
     tip |-> tip, opcode |-> "ArpRequest"]

(***************************************************************************)
(* C18: an ARP request whose target IP is locally bound is answered with   *)
(* exactly one ARP packet with opcode = Reply, smac = the MAC bound to     *)
(* that IP, sip = the requested IP, tmac = the requester's MAC and tip =   *)
(* the requester's IP, in an Ethernet II frame with dst = the request      *)
(* frame's source MAC and src = the local MAC, and the pair (requester     *)
(* MAC, requester IP) is stored in the remote ARP table; a request for an  *)
(* IP that is not locally bound produces no reply and no table change.     *)
(* Stated of what Ethernet::handle_rx returns for such a request in every  *)
(* reachable state of the stack.                                           *)
(***************************************************************************)
C18_ArpRequestAnswered ==
    \A src \in {PeerMac, OtherMac} :
        LET bound == Ethernet_handle_rx(ArpRequest(src, LocalIp), "wildcard")
            unbound == Ethernet_handle_rx(ArpRequest(src, OtherIp), "wildcard")
        IN  /\ ~bound.panic
            /\ bound.out =
                 Some([dst |-> src, src |-> LocalMac, dtype |-> "ARP",
                       data |-> [len |-> MIN_ARP_LEN + 1,
                                 opcode |-> "ArpReply",
                                 smac |-> LocalMac, sip |-> LocalIp,
                                 tmac |-> PeerMac, tip |-> PeerIp]])
            /\ PeerMac \in DOMAIN bound.arp_table
            /\ bound.arp_table[PeerMac] = PeerIp
            /\ \A m \in DOMAIN bound.arp_table \ {PeerMac} :
                  m \in DOMAIN arp_table /\ bound.arp_table[m] = arp_table[m]
            /\ ~unbound.panic
            /\ unbound.out = None
            /\ unbound.arp_table = arp_table

\* the peer's request has been answered and the peer is in the table
C18_Witness ==
    /\ net_out # None
    /\ net_out[1].dtype = "ARP"
    /\ net_out[1].dst = OtherMac
    /\ net_out[1].data.opcode = "ArpReply"
    /\ PeerMac \in DOMAIN arp_table

(***************************************************************************)
(* C19: resolve_ip returns the cached MAC without emitting any ARP request *)
(* when the remote table already maps the IP; otherwise it emits at most 5 *)
(* ARP requests and returns None when no attempt finds the IP.             *)
(***************************************************************************)
C19_ResolveUsesCache ==
    [][\A ip \in {PeerIp, OtherIp} :
         ArpResolve(ip, LocalIp) =>
            LET r == Arp_resolve_ip(arp_table, ip, LocalIp) IN
            /\ ~net_panicked'
            /\ resolve_ip(ip) =>
                  /\ r.requests = 0
                  /\ r.ret # None
                  /\ arp_table[r.ret[1]] = ip
            /\ ~resolve_ip(ip) =>
                  /\ r.requests <= ARP_ATTEMPTS
                  /\ r.ret = None
      ]_vars

(***************************************************************************)
(* Claims about the packet views (checked under SpecWire).                 *)
(***************************************************************************)
(***************************************************************************)
(* C21: for each packet type and every buffer b that from_bytes accepts,   *)
(* into_bytes(from_bytes(b)) = b: no byte of the packet changes, the IPv4  *)
(* header checksum field included.                                         *)
(***************************************************************************)
C21_RoundTrip ==
    (wire_out # None /\ wire_sets = 0) => wire_out[1] = wire_in

\* big-endian 16-bit words of data, summed
RECURSIVE SumBE(_)
SumBE(data) ==
    IF Len(data) = 0 THEN 0
    ELSE IF Len(data) = 1 THEN 256 * data[1]
    ELSE 256 * data[1] + data[2] + SumBE(SubSeq(data, 3, Len(data)))

\* the one's-complement 16-bit sum of data (RFC 1071)
OnesComplementSum(data) == fold16(SumBE(data))

(***************************************************************************)
(* C22: after Ipv4::set_checksum the one's-complement sum of the 20 header *)
(* bytes taken with the checksum field zeroed, added to the stored         *)
(* checksum, is 0xFFFF, for every header and also after a second call.     *)
(***************************************************************************)
C22_ChecksumComplements ==
    (wire_kind = "Ipv4" /\ wire_pkt # None /\ wire_sets > 0) =>
        LET h == SubSeq(wire_pkt[1], 1, IPV4_HEADER_LEN)
            z == [h EXCEPT ![IPV4_CHECKSUM_LO] = 0, ![IPV4_CHECKSUM_HI] = 0]
            stored == 256 * h[IPV4_CHECKSUM_LO] + h[IPV4_CHECKSUM_HI]
        IN  fold16(OnesComplementSum(z) + stored) = U16 - 1

(***************************************************************************)
(* C23: after the driver processes a received frame whose header declares  *)
(* length L at cursor old, the new RX cursor is old + L + 4 rounded up to   *)
(* a multiple of 4, modulo 8192, and the value written to CAPR is that      *)
(* rounded cursor, before the modulo, minus 16; hence the cursor is always  *)
(* a multiple of 4 and less than 8192.                                      *)
(***************************************************************************)
C23_RxCursor ==
    /\ [](rx_cursor % 4 = 0 /\ rx_cursor < RX_BUF_LEN)
    /\ [][\A L \in FrameLens :
            (RtlRok(L) /\ ~panicked') =>
                \E u \in (rx_cursor + L + 4)..(rx_cursor + L + 7) :
                    /\ u % 4 = 0
                    /\ rx_cursor' = u % 8192
                    /\ capr' = u - 16]_vars

\* a frame whose length is no multiple of 4 has just taken the cursor past
\* the end of the ring
C23_Witness ==
    /\ ~panicked
    /\ rok_len % 4 # 0
    /\ capr + 16 >= RX_BUF_LEN
    /\ rx_cursor = (capr + 16) % RX_BUF_LEN

(***************************************************************************)
(* Claims about the TCP state machine (checked under SpecNet).  They are   *)
(* stated of what TcpConnection::handle_packet does with a segment on the  *)
(* connection of the peer, in the state the connection is in and in the    *)
(* states no sequence of received segments leads to.                       *)
(***************************************************************************)
\* enum TcpStates
TcpStates ==
    {"CLOSE", "LISTEN", "SYNSENT", "SYN_RECEIVED", "ESTABLISHED",
     "FIN_WAIT_1", "FIN_WAIT_2", "CLOSE_WAIT", "CLOSING", "LAST_ACK",
     "TIME_WAIT"}

\* states the code never assigns on the ingress path of a passive open
Unreached ==
    {"LISTEN", "SYNSENT", "FIN_WAIT_1", "FIN_WAIT_2", "CLOSING", "LAST_ACK",
     "TIME_WAIT"}

\* the connection of the peer as it is, and as it would be in those states
ConnStates == {connections[TheKey].state} \cup Unreached

ConnIn(st) == [connections[TheKey] EXCEPT !.state = st]

\* a segment without payload, in sequence, that acknowledges SND.NXT when
\* it carries ACK
Bare(c, flags) ==
    Segment(ListenPort, flags, c.rcv_nxt,
            IF "ACK" \in flags THEN c.snd_nxt ELSE 0, 20, <<>>)

(***************************************************************************)
(* C24: a FIN segment, with or without ACK, on a connection in             *)
(* SYN-RECEIVED or ESTABLISHED moves it to CLOSE-WAIT, one in FIN-WAIT-1    *)
(* moves it to FIN-WAIT-2; in CLOSED, LISTEN and SYN-SENT the segment       *)
(* changes nothing.                                                         *)
(***************************************************************************)
C24_FinTransitions ==
    TheKey \in DOMAIN connections =>
        \A st \in ConnStates : \A f \in {{"FIN"}, {"FIN", "ACK"}} :
            LET c == ConnIn(st)
                r == TcpConnection_handle_packet(c, Bare(c, f), overflow_checks)
            IN  /\ st \in {"SYN_RECEIVED", "ESTABLISHED"} =>
                    r.conn.state = "CLOSE_WAIT"
                /\ st = "FIN_WAIT_1" => r.conn.state = "FIN_WAIT_2"
                /\ st \in {"CLOSE", "LISTEN", "SYNSENT"} => r.conn = c

(***************************************************************************)
(* C25: a segment with RST, with or without ACK, on a connection in        *)
(* SYN-RECEIVED, ESTABLISHED, FIN-WAIT-1, FIN-WAIT-2 or CLOSE-WAIT moves    *)
(* the connection to CLOSED and is not answered; in every other state the   *)
(* segment is dropped and the state stays as it is.                         *)
(***************************************************************************)
C25_RstCloses ==
    TheKey \in DOMAIN connections =>
        \A st \in ConnStates : \A f \in {{"RST"}, {"RST", "ACK"}} :
            LET c == ConnIn(st)
                r == TcpConnection_handle_packet(c, Bare(c, f), overflow_checks)
            IN  /\ r.out = None
                /\ r.conn.state =
                     IF st \in {"SYN_RECEIVED", "ESTABLISHED", "FIN_WAIT_1",
                                "FIN_WAIT_2", "CLOSE_WAIT"}
                     THEN "CLOSE" ELSE st

\* every combination of the six control bits
AllFlagSets == SUBSET {"URG", "ACK", "PSH", "RST", "SYN", "FIN"}

\* the RST TcpConnection::accept answers a stray ACK with
StrayAckRst(seg) ==
    [Tcp_zeroed EXCEPT !.dst = seg.src, !.src = seg.dst, !.flags = {"RST"},
                       !.seq = seg.ack, !.hlen = 20]

SeqLe(a, b) == b - a >= 0

(***************************************************************************)
(* C27: on a connection that is not CLOSED, SND.UNA is at or before        *)
(* SND.NXT in 32-bit wrapping order and RCV.NXT never moves backwards; a    *)
(* sequence number that passes 2^32 - 1 wraps to 0 without a fault.         *)
(***************************************************************************)
C27_SeqSpaceWraps ==
    /\ [](\A k \in DOMAIN connections :
             connections[k].state # "CLOSE" =>
                 SeqLe(connections[k].snd_una, connections[k].snd_nxt))
    /\ [][\A k \in DOMAIN connections \cap DOMAIN connections' :
             SeqLe(connections[k].rcv_nxt, connections'[k].rcv_nxt)]_vars
    /\ [][(/\ TheKey \notin DOMAIN connections
           /\ ListenPort \in DOMAIN OPEN_PORTS
           /\ resolve_ip(PeerIp)
           /\ NetworkRx(TcpFrame(Segment(ListenPort, {"SYN"}, U32_MAX, 0, 20,
                                         <<>>)), "wildcard"))
          => /\ ~net_panicked'
             /\ connections'[TheKey].rcv_nxt = 0]_vars

(***************************************************************************)
(* C28: an ARP packet with opcode = Reply whose target IP is locally bound *)
(* makes the stack store the pair (sender MAC, sender IP) in the remote     *)
(* ARP table and emit no packet in response.                                *)
(***************************************************************************)
C28_ArpReplyLearnt ==
    \A src \in {PeerMac, OtherMac} :
        LET r == Ethernet_handle_rx(
                     [ArpRequest(src, LocalIp) EXCEPT !.opcode = "ArpReply"],
                     "wildcard")
        IN  /\ ~r.panic
            /\ PeerMac \in DOMAIN r.arp_table
            /\ r.arp_table[PeerMac] = PeerIp
            /\ r.out = None


(***************************************************************************)
(* C29: a send() made at any point of a recv() poll is not lost.  Between  *)
(* two polls, a receiver that is pending beside a non-empty queue has a    *)
(* wake outstanding; a receiver that got the terminal result left no       *)
(* message queued; and the messages received followed by the messages      *)
(* queued are always the messages sent.                                    *)
(***************************************************************************)
C29_SendNotLost ==
    /\ (rx_pc = "idle" /\ rx_state = "pending" /\ chan_list # <<>>)
           => rx_woken
    /\ rx_state = "done" => chan_list = <<>>
    /\ received \o chan_list = sent

\* a send() fell between the first pop and the registration of the waker, so
\* it woke nobody: the poll is about to retry with the message in the queue
C29_Witness ==
    /\ rx_pc = "retry"
    /\ chan_list # <<>>
    /\ ~rx_woken
    /\ ~chan_panicked


(***************************************************************************)
(* C30: a frame the NIC interrupt handler pushes at any point of           *)
(* RxSink::poll_next reaches the RX task.  The frames handed to the task   *)
(* followed by the frames queued are the frames enqueued, in the order the *)
(* handler enqueued them; while frames are queued and no poll_next is      *)
(* under way, an RX task that has been polled is on the run queue; and     *)
(* every queued frame is eventually handed to the task, unless the kernel  *)
(* panics.                                                                 *)
(***************************************************************************)
RxTasks(m) == {t \in DOMAIN m : m[t].kind = "rx"}

InPollNext == pc \in {"rx_pop", "rx_register", "rx_retry", "rx_take"}

FramesInOrder == delivered \o FRAMES = [i \in 1..frames_seen |-> i]

NoFrameStranded ==
    (/\ ~panicked
     /\ FRAMES # <<>>
     /\ ~InPollNext
     /\ \E t \in RxTasks(tasks) : polls[t] > 0)
        => \E t \in RxTasks(tasks) : t \in Range(task_queue)

PendingIn(what) == {t \in AllLockTasks : lock_wait[t] = what}

\* a step that starts read(), write(), try_read() or try_write()
NewAcquisition ==
    \E t \in Waiters :
        /\ Starts(t)
        /\ \/ \E p \in BOOLEAN : RwTryRead(t, TRUE, p)
           \/ \E p \in BOOLEAN : RwTryWrite(t, p)

WriteReleaseWakes ==
    Live(write_guards)' < Live(write_guards) =>
        /\ PendingIn("read") \subseteq lock_woken'
        /\ (PendingIn("read") = {} /\ PendingIn("write") # {})
              => PendingIn("write") \cap lock_woken' # {}

LastReadReleaseWakes ==
    (Live(read_guards)' = 0 /\ Live(read_guards) = 1 /\ PendingIn("write") # {})
        => PendingIn("write") \cap lock_woken' # {}

PendingObtainsGuard ==
    ([]~future_dropped /\ <>[][~NewAcquisition]_vars)
        => \A t \in Waiters :
              (lock_wait[t] \in {"read", "write"}) ~> (lock_wait[t] = "none")

C31_RwLockWakes ==
    /\ [][WriteReleaseWakes /\ LastReadReleaseWakes]_vars
    /\ PendingObtainsGuard


(***************************************************************************)
(* C32: dropping a future that is pending in Mutex::lock() or in           *)
(* RwLock::write() takes the waker it registered out of the waker set, and *)
(* whenever a guard is released while some live task is pending on the     *)
(* lock, one of the live pending tasks is woken.                           *)
(***************************************************************************)
DropDeregisters ==
    \A t \in Waiters :
        LockFutureDrop(t) =>
            /\ lock_wait[t] = "lock" => t \notin mutex_wakers'
            /\ lock_wait[t] = "write" => t \notin write_wakers'

MutexReleaseWakesLive ==
    (Live(mutex_guards)' < Live(mutex_guards) /\ PendingIn("lock") # {})
        => PendingIn("lock") \cap lock_woken' # {}

RwReleaseWakesLive ==
    (/\ rw_state' = 0
     /\ rw_state # 0
     /\ PendingIn("write") # {})
        => PendingIn("write") \cap lock_woken' # {}

C32_CancelDeregisters ==
    [][DropDeregisters /\ MutexReleaseWakesLive /\ RwReleaseWakesLive]_vars

\* C35: no interrupt handler calls into code that takes the allocator's
\* lock, so no reachable state has a handler spinning on the heap
\* allocator's lock while the task it interrupted holds that lock.
C35_IsrNeverSpinsOnHeap == ~(heap_spin /\ heap_lock = "task")

\* C33: the NIC interrupt handler never waits for the driver state lock:
\* no reachable state has handle_int spinning on the lock while the task
\* context it interrupted holds a guard of that lock.
C33_HandlerNeverWaits == ~(isr_spin /\ state_lock \in TaskGuards)

\* the frames of the descriptor writes, in the order they were made
DescFrames == [i \in 1..Len(tx_desc) |-> tx_desc[i][2]]

\* the descriptor slots of the writes follow the cursor poll_flush found
DescSlots ==
    \A i \in 1..Len(tx_desc) : tx_desc[i][1] = (flush_in[2] + i - 1) % TX_SLOTS

\* C34: every return from poll_flush, ready or pending, leaves the card's
\* interrupts enabled in the PCI command word, and a pending return leaves
\* the task registered to be polled again; on the ready path the buffered
\* frames went to the TX descriptors in start_send order and the TX cursor
\* advanced by their number modulo 4.
C34_FlushRestores ==
    /\ flush_ret \in {"ready", "pending"} => ~IntDisabled(pci_cmd)
    /\ flush_ret = "pending" => tx_wakers # {}
    /\ flush_ret = "ready" =>
          /\ DescFrames = flush_in[1]
          /\ DescSlots
          /\ tx_cursor = (flush_in[2] + Len(flush_in[1])) % TX_SLOTS

\* the ready path of poll_flush alone does what C34 says
FlushReadyRestores ==
    flush_ret = "ready" =>
        /\ ~IntDisabled(pci_cmd)
        /\ DescFrames = flush_in[1]
        /\ DescSlots
        /\ tx_cursor = (flush_in[2] + Len(flush_in[1])) % TX_SLOTS

\* a step polls task t
Polled(t) == t \in DOMAIN polls' /\ polls'[t] > polls[t]

\* only the live task whose id is at the head of the run queue is polled:
\* polls follow the order of the pushes, a completed task is not polled
PollsHead ==
    \A t \in DOMAIN polls :
        Polled(t) =>
            /\ task_queue # <<>>
            /\ t = Head(task_queue)
            /\ t \in DOMAIN tasks

\* a task that wakes itself in its poll goes behind every id already queued
RequeuedBehind ==
    \A t \in DOMAIN polls :
        (Polled(t) /\ t \in DOMAIN tasks /\ WakesItself(tasks[t]))
            => task_queue' = Append(Tail(task_queue), t)

\* popping the id of a completed task polls nothing
SkipsCompleted ==
    (/\ pc = "run"
     /\ task_queue # <<>>
     /\ Head(task_queue) \notin DOMAIN tasks
     /\ task_queue' = Tail(task_queue))
        => polls' = polls /\ tasks' = tasks

\* when the executor is about to poll a task again, every live task that
\* was queued at its previous poll has been polled since
OwedPolled ==
    (/\ pc = "run"
     /\ task_queue # <<>>
     /\ Head(task_queue) \in DOMAIN tasks)
        => owed[Head(task_queue)] = {}

C37_NoHaltWithSpawn == ~(pc = "halted" /\ SPAWN_QUEUE # <<>>)

\* C38: while the live tasks do not exceed the capacity of the run queue,
\* no sequence of spawns and wakes, several wakes of one task between two
\* of its polls included, makes a push find the run queue full and panic.
C38_NoQueueFullPanic ==
    Cardinality(DOMAIN tasks) <= QueueCap => ~panicked

\* the earliest deadline stored in the timer wheel
EarliestDeadline == Min(DOMAIN TIMER_QUEUE)

\* the next-deadline register mirrors the wheel
NotifyMirrorsWheel ==
    /\ NOTIFY_AT = 0 <=> DOMAIN TIMER_QUEUE = {}
    /\ DOMAIN TIMER_QUEUE # {} => NOTIFY_AT = EarliestDeadline

\* a tick on which get_milis() reaches the earliest deadline runs
\* wake_tasks: the entry leaves the wheel and its task is pushed
DueTickWakes ==
    (/\ TICK' = TICK + 1
     /\ ~panicked'
     /\ DOMAIN TIMER_QUEUE # {}
     /\ EarliestDeadline <= get_milis_of(TICK'))
        => /\ EarliestDeadline \notin DOMAIN TIMER_QUEUE'
           /\ Len(task_queue') > Len(task_queue)
           /\ TIMER_QUEUE[EarliestDeadline] \in
                  {task_queue'[i] : i \in 1..Len(task_queue')}

\* C39: outside a run of wake_tasks the next-deadline register is 0 if
\* and only if the timer wheel is empty and otherwise equals the earliest
\* stored deadline; so a tick on which the millisecond counter reaches
\* that deadline invokes wake_tasks.
C39_NotifyAtEarliest == []NotifyMirrorsWheel /\ [][DueTickWakes]_vars

\* a tick has just run wake_tasks for a due entry while a later deadline
\* stays in the wheel
C39_Witness ==
    /\ DOMAIN TIMER_QUEUE # {}
    /\ NOTIFY_AT = EarliestDeadline
    /\ TICK > 0
    /\ get_milis >= 50
    /\ \E t \in DOMAIN polls : polls[t] >= 2 /\ t \in DOMAIN tasks
    /\ \E t \in DOMAIN spawned :
          spawned[t].kind \in {"sleep", "interval"} /\ t \notin DOMAIN tasks

\* the connection map holds no connection in the CLOSED state
NoClosedInMap ==
    \A k \in DOMAIN connections : connections[k].state # "CLOSE"

\* a SYN from the peer of a 4-tuple that was closed, to the port a
\* listener is bound to, is taken as a new connection: a stream goes to
\* the listener and the reply carries SYN and ACK
SynAfterCloseAccepted ==
    (/\ TheKey \in DOMAIN connections
     /\ connections[TheKey].state = "CLOSE"
     /\ ListenPort \in DOMAIN OPEN_PORTS
     /\ resolve_ip(PeerIp)) =>
        \A sq \in PeerIsns :
            LET seg == Segment(ListenPort, {"SYN"}, sq, 0, 20, <<>>)
                r == Ethernet_handle_rx(TcpFrame(seg), "wildcard")
            IN  /\ ~r.panic
                /\ r.accept_queue # accept_queue
                /\ r.out # None
                /\ r.out[1].data.l4[1].flags = {"SYN", "ACK"}

\* C40: after a connection reached CLOSED (by a RST or by a SYN on the
\* connection) its 4-tuple is free again: the connection map holds no
\* CLOSED connection, and a later SYN from the same peer address and port
\* to the same listening port is accepted as a new connection, with a
\* SYN,ACK reply and a new stream delivered to the listener.
C40_ClosedTupleFree == NoClosedInMap /\ SynAfterCloseAccepted

====
